---- MODULE Spec2Model ----
(***************************************************************************)
(* Routing-grid coordinate model and track-fill engine of the BAG layout   *)
(* generator: bag/layout/routing/grid.py and bag/layout/routing/fill.py.   *)
(* All quantities are integers in resolution units.  A track index t is    *)
(* carried as the integer 2*t, so that the half-integer indices of the     *)
(* source (q + 0.5) stay exact; names ending in "2" hold such doubled      *)
(* indices.  Half-track indices (hidx = 2*t + 1) are kept as in the source.*)
(***************************************************************************)
EXTENDS Integers, Sequences, FiniteSets, TLC

VARIABLES
    pc,                 \* "call" before the operation ran, "done" after
    op,                 \* name of the operation being called
    args,               \* its arguments
    ret,                \* its return value
    exc,                \* "" or the name of the exception it raised
    layers,             \* RoutingGrid.layers (sorted sequence of layer ids)
    sp_tracks,          \* RoutingGrid.sp_tracks
    w_tracks,           \* RoutingGrid.w_tracks
    dir_tracks,         \* RoutingGrid.dir_tracks
    offset_tracks,      \* RoutingGrid.offset_tracks
    max_num_tr_tracks,  \* RoutingGrid.max_num_tr_tracks
    block_pitch,        \* RoutingGrid.block_pitch
    _flip_parity,       \* RoutingGrid._flip_parity    (these four are attributes of
    _ignore_layers,     \* RoutingGrid._ignore_layers   the grid of src/bag only; the
    w_override,         \* RoutingGrid.w_override       grid of bag/ has none of them
    private_layers      \* RoutingGrid.private_layers   and they stay empty)

call_vars == <<pc, op, args, ret, exc>>
grid_vars == <<layers, sp_tracks, w_tracks, dir_tracks, offset_tracks,
               max_num_tr_tracks, block_pitch, _flip_parity, _ignore_layers,
               w_override, private_layers>>
vars == <<pc, op, args, ret, exc, layers, sp_tracks, w_tracks, dir_tracks,
          offset_tracks, max_num_tr_tracks, block_pitch, _flip_parity,
          _ignore_layers, w_override, private_layers>>

(***************************************************************************)
(* Python integer arithmetic: // and % round toward minus infinity for     *)
(* either sign of the divisor (the divisor is never 0 where these are      *)
(* used; a zero divisor is reported as ZeroDivisionError by the caller).   *)
(***************************************************************************)
PyDiv(a, b) ==
    IF b > 0 THEN a \div b ELSE (0 - a) \div (0 - b)

PyMod(a, b) ==
    a - b * PyDiv(a, b)

Max2(a, b) ==
    IF a >= b THEN a ELSE b

Min2(a, b) ==
    IF a <= b THEN a ELSE b

\* a returned value / a raised exception
Return(v) ==
    [exc |-> "", val |-> v]

Raise(e) ==
    [exc |-> e, val |-> <<>>]

(***************************************************************************)
(* Symmetric interval packing (fill.py).                                   *)
(***************************************************************************)

\* number of space blocks for num_blk_tot fill blocks
NumSpTot(num_blk_tot, fill_on_edge, cyclic) ==
    IF cyclic THEN num_blk_tot
    ELSE IF fill_on_edge THEN num_blk_tot - 1
    ELSE num_blk_tot + 1

\* length of the middle fill block when the number of blocks is odd:
\* one odd leftover fill unit goes to the middle
MidBlkLenWide(blk_len, num_blk1) ==
    blk_len + num_blk1

MidBlkLen(blk_len, num_blk1) ==
    IF PyMod(num_blk1, 2) = 1 THEN blk_len + 1 ELSE blk_len

\* the two block lengths and the count k of blk1 among the m half-blocks
BlkChoice(blk_len, num_large, num_small, fill_on_edge, cyclic) ==
    IF cyclic /\ fill_on_edge
    THEN IF PyMod(blk_len, 2) = 0
         THEN [blk1 |-> blk_len, blk0 |-> blk_len + 1, k |-> num_small]
         ELSE [blk0 |-> blk_len, blk1 |-> blk_len + 1, k |-> num_large]
    ELSE IF num_large >= num_small
         THEN [blk0 |-> blk_len, blk1 |-> blk_len + 1, k |-> num_large]
         ELSE [blk1 |-> blk_len, blk0 |-> blk_len + 1, k |-> num_small]

\* the tuple returned by _fill_symmetric_info
InfoTuple(fill_area, same_sp, c, m, mid_blk_len, mid_sp_len) ==
    [fill_area |-> fill_area, same_sp |-> same_sp, blk0 |-> c.blk0, blk1 |-> c.blk1,
     k |-> c.k, m |-> m, mid_blk_len |-> mid_blk_len, mid_sp_len |-> mid_sp_len]

\* "distribute the fill units evenly": num_large, num_small, m and the block choice
InfoSpread(fill_area, same_sp, blk_len, num_blk1, nbt, mid_blk_len, mid_sp_len, fill_on_edge, cyclic) ==
    InfoTuple(fill_area, same_sp,
              BlkChoice(blk_len, PyDiv(num_blk1, 2), PyDiv(nbt - num_blk1, 2),
                        fill_on_edge, cyclic),
              PyDiv(num_blk1, 2) + PyDiv(nbt - num_blk1, 2),
              mid_blk_len, mid_sp_len)

\* even number of blocks: a space in the middle, adjusted by adj_sp_sgn when the
\* leftover is odd; odd number of blocks: a block in the middle
InfoParity(fill_area, blk_len, num_blk1, nbt, sp, adj_sp_sgn, fill_on_edge, cyclic) ==
    IF PyMod(nbt, 2) = 0
    THEN IF PyMod(num_blk1, 2) = 1
         THEN InfoSpread(fill_area - adj_sp_sgn, FALSE, blk_len, num_blk1 - adj_sp_sgn, nbt,
                         -1, sp + adj_sp_sgn, fill_on_edge, cyclic)
         ELSE InfoSpread(fill_area, TRUE, blk_len, num_blk1, nbt, -1, sp,
                         fill_on_edge, cyclic)
    ELSE InfoSpread(fill_area, TRUE, blk_len, num_blk1, nbt, MidBlkLen(blk_len, num_blk1),
                    -1, fill_on_edge, cyclic)

\* "find minimum block length" and the checks that raise
InfoDivide(fill_area, num_blk_tot, sp, adj_sp_sgn, fill_on_edge, cyclic) ==
    IF num_blk_tot = 0 THEN Raise("ZeroDivisionError")
    ELSE IF PyDiv(fill_area, num_blk_tot) <= 0 THEN Raise("ValueError")
    ELSE IF cyclic /\ ~fill_on_edge /\ PyMod(sp, 2) = 1 THEN Raise("ValueError")
    ELSE Return(InfoParity(fill_area, PyDiv(fill_area, num_blk_tot),
                           PyMod(fill_area, num_blk_tot),
                           IF cyclic /\ fill_on_edge THEN num_blk_tot + 1 ELSE num_blk_tot,
                           sp, adj_sp_sgn, fill_on_edge, cyclic))

_fill_symmetric_info(tot_area, num_blk_tot, sp, inc_sp, fill_on_edge, cyclic) ==
    IF NumSpTot(num_blk_tot, fill_on_edge, cyclic) = 0 /\ sp # 0 THEN Raise("ValueError")
    ELSE InfoDivide(tot_area - NumSpTot(num_blk_tot, fill_on_edge, cyclic) * sp,
                    num_blk_tot, sp, IF inc_sp THEN 1 ELSE -1, fill_on_edge, cyclic)

\* cumulative modding: the block at this position has length blk1
UseBlk1(cur_sum, prev_sum) ==
    cur_sum < prev_sum

\* the interval recorded for one block of length cur_len starting at marker
RecordIntv(marker, cur_len, sp, invert, fill_on_edge) ==
    IF invert
    THEN IF fill_on_edge THEN <<marker + cur_len, marker + sp + cur_len>>
         ELSE <<marker, marker + sp>>
    ELSE IF fill_on_edge THEN <<marker, marker + cur_len>>
         ELSE <<marker + sp, marker + sp + cur_len>>

\* the loop "for _ in range(m)" of _fill_symmetric_helper, from iteration i on
RECURSIVE FirstHalf(_, _, _, _, _, _, _, _, _)
FirstHalf(i, f, sp, invert, fill_on_edge, ans, marker, cur_sum, prev_sum) ==
    IF i >= f.m THEN [ans |-> ans, marker |-> marker]
    ELSE LET cur_len == IF UseBlk1(cur_sum, prev_sum) THEN f.blk1 ELSE f.blk0
         IN  FirstHalf(i + 1, f, sp, invert, fill_on_edge,
                       Append(ans, RecordIntv(marker, cur_len, sp, invert, fill_on_edge)),
                       marker + cur_len + sp,
                       PyMod(cur_sum + f.k, f.m), cur_sum)

\* the second half of the list: the first half_len intervals mirrored, last first
Mirror(ans, half_len, shift) ==
    ans \o [j \in 1..half_len |->
                <<shift - ans[half_len - j + 1][2], shift - ans[half_len - j + 1][1]>>]

\* the starting marker
Marker0(f, sp, offset, fill_on_edge, cyclic) ==
    IF cyclic
    THEN (IF fill_on_edge THEN offset - PyDiv(f.blk1, 2) ELSE offset - PyDiv(sp, 2))
    ELSE offset

\* "add middle fill or space" and the mirrored second half; a and marker are the list
\* and the marker after the loop
HelperMiddle(f, a, marker, shift, sp, invert, fill_on_edge) ==
    IF f.mid_blk_len >= 0
    THEN \* fill in middle
         IF invert
         THEN IF ~fill_on_edge
              THEN Return([ans |-> Mirror(Append(a, <<marker, marker + sp>>), Len(a) + 1, shift),
                           same_sp |-> f.same_sp])
              ELSE Return([ans |-> Mirror(a, Len(a), shift), same_sp |-> f.same_sp])
         ELSE IF fill_on_edge
              THEN Return([ans |-> Mirror(Append(a, <<marker, marker + f.mid_blk_len>>),
                                          Len(a), shift),
                           same_sp |-> f.same_sp])
              ELSE Return([ans |-> Mirror(Append(a, <<marker + sp, marker + sp + f.mid_blk_len>>),
                                          Len(a), shift),
                           same_sp |-> f.same_sp])
    ELSE \* space in middle
         IF invert
         THEN IF fill_on_edge
              THEN IF Len(a) = 0 THEN Raise("IndexError")
                   ELSE Return([ans |-> Mirror(Append(SubSeq(a, 1, Len(a) - 1),
                                                      <<marker - sp, marker - sp + f.mid_sp_len>>),
                                               Len(a) - 1, shift),
                                same_sp |-> f.same_sp])
              ELSE Return([ans |-> Mirror(Append(a, <<marker, marker + f.mid_sp_len>>),
                                          Len(a), shift),
                           same_sp |-> f.same_sp])
         ELSE Return([ans |-> Mirror(a, Len(a), shift), same_sp |-> f.same_sp])

\* the helper after _fill_symmetric_info returned h = [ans, marker] of the loop
HelperLoopDone(f, h, shift, sp, invert, fill_on_edge) ==
    HelperMiddle(f, h.ans, h.marker, shift, sp, invert, fill_on_edge)

HelperFill(info, tot_area, sp, offset, invert, fill_on_edge, cyclic) ==
    IF info.exc # "" THEN info
    ELSE HelperLoopDone(info.val,
                        FirstHalf(0, info.val, sp, invert, fill_on_edge, <<>>,
                                  Marker0(info.val, sp, offset, fill_on_edge, cyclic), 0, 1),
                        tot_area + offset * 2, sp, invert, fill_on_edge)

_fill_symmetric_helper(tot_area, num_blk_tot, sp, offset, inc_sp, invert, fill_on_edge, cyclic) ==
    HelperFill(_fill_symmetric_info(tot_area, num_blk_tot, sp, inc_sp, fill_on_edge, cyclic),
               tot_area, sp, offset, invert, fill_on_edge, cyclic)

\* first element [0] of the helper's result
HelperAns(r) ==
    IF r.exc # "" THEN r ELSE Return(r.val.ans)

\* step 1 of fill_symmetric_max: the loop over blk_len_max from b down to n_min
SearchResult(b, num_blk_min, cyclic) ==
    [blk_len_max |-> b, num_blk_min |-> num_blk_min,
     num_sp_min |-> IF cyclic THEN num_blk_min ELSE num_blk_min - 1]

NumBlkMin(b, area, sp_min, cyclic) ==
    IF cyclic THEN PyDiv(area, b + sp_min) ELSE PyDiv(area + sp_min, b + sp_min)

RECURSIVE MaxBlkSearch(_, _, _, _, _)
MaxBlkSearch(b, n_min, area, sp_min, cyclic) ==
    IF b <= n_min
       \/ (/\ NumBlkMin(b, area, sp_min, cyclic) > 0
           /\ SearchResult(b, NumBlkMin(b, area, sp_min, cyclic), cyclic).num_sp_min > 0)
    THEN SearchResult(b, NumBlkMin(b, area, sp_min, cyclic), cyclic)
    ELSE MaxBlkSearch(b - 1, n_min, area, sp_min, cyclic)

\* steps 2 and 3 of fill_symmetric_max that never add a block to the minimum number
MaxDecideMinBlocks(s, area, n_min, n_max, sp_min, offset, cyclic) ==
    IF s.num_blk_min <= 0 \/ s.num_sp_min <= 0 THEN Return(<<>>)
    ELSE HelperAns(_fill_symmetric_helper(area, s.num_sp_min, s.blk_len_max, offset,
                                          s.blk_len_max < n_max, TRUE, cyclic, cyclic))

\* steps 2 and 3 of fill_symmetric_max with the search result s
MaxDecide(s, area, n_min, n_max, sp_min, offset, cyclic) ==
    IF s.num_blk_min <= 0 \/ s.num_sp_min <= 0 THEN Return(<<>>)
    ELSE IF area - s.num_blk_min * s.blk_len_max <= (s.num_sp_min + 1) * sp_min
    THEN HelperAns(_fill_symmetric_helper(area, s.num_sp_min, s.blk_len_max, offset,
                                          s.blk_len_max < n_max, TRUE, cyclic, cyclic))
    ELSE IF PyDiv(area - (s.num_sp_min + 1) * sp_min, s.num_blk_min + 1) < n_min
    THEN Raise("ValueError")
    ELSE HelperAns(_fill_symmetric_helper(area, s.num_blk_min + 1, sp_min, offset,
                                          TRUE, FALSE, ~cyclic, cyclic))

fill_symmetric_max(area, n_min, n_max, sp_min, offset, cyclic) ==
    IF n_min >= n_max THEN Raise("ValueError")
    ELSE IF n_min <= area /\ area <= n_max /\ ~cyclic
    THEN Return(<< <<offset, offset + area>> >>)
    ELSE MaxDecide(MaxBlkSearch(n_max, n_min, area, sp_min, cyclic),
                   area, n_min, n_max, sp_min, offset, cyclic)

\* the inverted formulation, retried with one more block when same_sp is false
ConstInverted(first, area, num_fill, n_max, offset) ==
    IF first.exc # "" THEN first
    ELSE IF first.val.same_sp THEN Return(first.val.ans)
    ELSE HelperAns(_fill_symmetric_helper(area, num_fill + 2, n_max, offset,
                                          FALSE, TRUE, TRUE, FALSE))

\* num_fill blocks with sp_max between them would be shorter than n_min: reduce the space
ConstShrink(area, num_fill, n_min, n_max, offset) ==
    IF num_fill + 1 = 0 THEN Raise("ZeroDivisionError")
    ELSE IF n_max > n_min \/ PyMod(area - num_fill * n_min, num_fill + 1) = 0
    THEN HelperAns(_fill_symmetric_helper(area, num_fill,
                                          PyDiv(area - num_fill * n_min, num_fill + 1),
                                          offset, FALSE, FALSE, FALSE, FALSE))
    ELSE ConstInverted(_fill_symmetric_helper(area, num_fill + 1, n_max, offset,
                                              FALSE, TRUE, TRUE, FALSE),
                       area, num_fill, n_max, offset)

\* fill_symmetric_const_space once num_fill is known
ConstDecide(num_fill, area, sp_max, n_min, n_max, offset) ==
    IF num_fill = 0 THEN Return(<<>>)
    ELSE IF PyDiv(area - (num_fill + 1) * sp_max, num_fill) >= n_min
    THEN HelperAns(_fill_symmetric_helper(area, num_fill, sp_max, offset,
                                          FALSE, FALSE, FALSE, FALSE))
    ELSE ConstShrink(area, num_fill, n_min, n_max, offset)

fill_symmetric_const_space(area, sp_max, n_min, n_max, offset) ==
    IF n_min > n_max THEN Raise("ValueError")
    ELSE ConstDecide(0 - PyDiv(0 - (area - sp_max), n_max + sp_max),
                     area, sp_max, n_min, n_max, offset)

(***************************************************************************)
(* RoutingGrid (grid.py).  A grid g is the record of its per-layer tables; *)
(* the variables layers, sp_tracks, ... hold the tables of the grid under  *)
(* construction.  Lengths given to add_new_layer are in resolution units   *)
(* (resolution = 1 layout unit), so tr_space / (2 * resolution) is exact.  *)
(***************************************************************************)
_gcd(a, b) ==
    LET RECURSIVE G(_, _)
        G(x, y) == IF y = 0 THEN x ELSE G(y, PyMod(x, y))
    IN  G(a, b)

\* a step of _lcm that multiplies without dividing by the gcd
LcmStepProduct(cur_lcm, val) ==
    cur_lcm * val

\* one step of _lcm: cur_lcm * val // _gcd(cur_lcm, val)
LcmStep(cur_lcm, val) ==
    PyDiv(cur_lcm * val, _gcd(cur_lcm, val))

\* _lcm over the sequence arr, starting from init
_lcm(arr, init) ==
    LET RECURSIVE L(_, _)
        L(i, cur) == IF i > Len(arr) THEN cur ELSE L(i + 1, LcmStep(cur, arr[i]))
    IN  L(1, init)

\* int(round(n / 2)) for an integer n: Python rounds a tie to the even neighbour
RoundHalf(n) ==
    LET q == PyDiv(n, 2)
    IN  IF PyMod(n, 2) = 0 THEN q
        ELSE IF PyMod(q, 2) = 0 THEN q ELSE q + 1

\* layers.append(layer_id); layers.sort()
SortedInsert(seq, x) ==
    LET below == SelectSeq(seq, LAMBDA y : y <= x)
        above == SelectSeq(seq, LAMBDA y : y > x)
    IN  below \o <<x>> \o above

\* d[k] = v on a Python dict
DictSet(d, k, v) ==
    [x \in (DOMAIN d) \cup {k} |-> IF x = k THEN v ELSE d[x]]

EmptyGrid ==
    [layers |-> <<>>, sp_tracks |-> <<>>, w_tracks |-> <<>>, dir_tracks |-> <<>>,
     offset_tracks |-> <<>>, max_num_tr_tracks |-> <<>>, block_pitch |-> <<>>,
     _flip_parity |-> <<>>, _ignore_layers |-> {}, w_override |-> <<>>,
     private_layers |-> <<>>]

add_new_layer(g, layer_id, tr_space, tr_width, direction, max_num_tr, share_track, override) ==
    IF layer_id \in DOMAIN g.sp_tracks /\ ~override THEN Raise("ValueError")
    ELSE
    LET sp_unit == 2 * RoundHalf(tr_space)
        w_unit  == 2 * RoundHalf(tr_width)
        offset  == IF share_track THEN 0 ELSE PyDiv(sp_unit + w_unit, 2)
    IN  Return([g EXCEPT
                  !.layers = IF layer_id \in DOMAIN g.sp_tracks THEN @
                             ELSE SortedInsert(@, layer_id),
                  !.sp_tracks = DictSet(@, layer_id, sp_unit),
                  !.w_tracks = DictSet(@, layer_id, w_unit),
                  !.dir_tracks = DictSet(@, layer_id, direction),
                  !.max_num_tr_tracks = DictSet(@, layer_id, max_num_tr),
                  !.offset_tracks = DictSet(@, layer_id, offset)])

\* update_block_pitch: the loop over self.layers from position i on; pitch_list
\* holds the block pitches of the layers before position i
RECURSIVE BlockPitchLoop(_, _, _)
BlockPitchLoop(g, i, pitch_list) ==
    IF i > Len(g.layers) THEN g
    ELSE LET lay      == g.layers[i]
             own      == g.sp_tracks[lay] + g.w_tracks[lay]
             same_dir == {j \in 1..Len(pitch_list) :
                             g.dir_tracks[g.layers[j]] = g.dir_tracks[lay]}
             RECURSIVE Pick(_)
             Pick(j) == IF j > Len(pitch_list) THEN <<>>
                        ELSE (IF j \in same_dir THEN <<pitch_list[j]>> ELSE <<>>) \o Pick(j + 1)
             cur      == IF Len(pitch_list) > 0 THEN _lcm(Pick(1), own) ELSE own
         IN  BlockPitchLoop([g EXCEPT !.block_pitch = DictSet(@, lay, cur)],
                            i + 1, Append(pitch_list, cur))

update_block_pitch(g) ==
    BlockPitchLoop(g, 1, <<>>)

OtherDir(d) ==
    IF d = "x" THEN "y" ELSE "x"

\* RoutingGrid.__init__: add the layers bottom-up with alternating direction, then
\* compute the block pitches (the list lengths agree, max_num_tr is one integer)
RECURSIVE InitLayers(_, _, _, _, _, _, _)
InitLayers(g, i, lays, spaces, widths, cur_dir, max_num_tr) ==
    IF i > Len(lays) THEN g
    ELSE InitLayers(add_new_layer(g, lays[i], spaces[i], widths[i], cur_dir,
                                  max_num_tr, FALSE, FALSE).val,
                    i + 1, lays, spaces, widths, OtherDir(cur_dir), max_num_tr)

RoutingGrid_init(lays, spaces, widths, bot_dir, max_num_tr) ==
    update_block_pitch(InitLayers(EmptyGrid, 1, lays, spaces, widths, bot_dir, max_num_tr))

\* the grid held by the variables
Grid ==
    [layers |-> layers, sp_tracks |-> sp_tracks, w_tracks |-> w_tracks,
     dir_tracks |-> dir_tracks, offset_tracks |-> offset_tracks,
     max_num_tr_tracks |-> max_num_tr_tracks, block_pitch |-> block_pitch,
     _flip_parity |-> _flip_parity, _ignore_layers |-> _ignore_layers,
     w_override |-> w_override, private_layers |-> private_layers]

\* the variables hold grid g in the next state / in this state
GridBecomes(g) ==
    /\ layers' = g.layers
    /\ sp_tracks' = g.sp_tracks
    /\ w_tracks' = g.w_tracks
    /\ dir_tracks' = g.dir_tracks
    /\ offset_tracks' = g.offset_tracks
    /\ max_num_tr_tracks' = g.max_num_tr_tracks
    /\ block_pitch' = g.block_pitch
    /\ _flip_parity' = g._flip_parity
    /\ _ignore_layers' = g._ignore_layers
    /\ w_override' = g.w_override
    /\ private_layers' = g.private_layers

GridIs(g) ==
    /\ layers = g.layers
    /\ sp_tracks = g.sp_tracks
    /\ w_tracks = g.w_tracks
    /\ dir_tracks = g.dir_tracks
    /\ offset_tracks = g.offset_tracks
    /\ max_num_tr_tracks = g.max_num_tr_tracks
    /\ block_pitch = g.block_pitch
    /\ _flip_parity = g._flip_parity
    /\ _ignore_layers = g._ignore_layers
    /\ w_override = g.w_override
    /\ private_layers = g.private_layers

TrackPitch(g, layer_id) ==
    g.sp_tracks[layer_id] + g.w_tracks[layer_id]

\* coord_to_track without its exact-position test: the nearest half-track position
coord_to_track_rounding(g, layer_id, coord) ==
    LET ph == PyDiv(TrackPitch(g, layer_id), 2)
    IN  Return(PyDiv(2 * (coord - g.offset_tracks[layer_id]) + ph, 2 * ph))

\* coord_to_track (unit_mode=True); the track index q or q + 0.5 is returned doubled
coord_to_track(g, layer_id, coord) ==
    LET pitch == TrackPitch(g, layer_id)
        q == PyDiv(coord - g.offset_tracks[layer_id], pitch)
        r == PyMod(coord - g.offset_tracks[layer_id], pitch)
    IN  IF pitch = 0 THEN Raise("ZeroDivisionError")
        ELSE IF r = 0 THEN Return(2 * q)
        ELSE IF r = PyDiv(pitch, 2) THEN Return(2 * q + 1)
        ELSE Raise("ValueError")

\* track_to_coord that forgets the layer's track offset
track_to_coord_no_offset(g, layer_id, track2) ==
    PyDiv(TrackPitch(g, layer_id) * track2, 2)

\* track_to_coord in resolution units: pitch * track_idx + offset, track_idx = track2 / 2
track_to_coord(g, layer_id, track2) ==
    PyDiv(TrackPitch(g, layer_id) * track2, 2) + g.offset_tracks[layer_id]

\* coord_to_nearest_track whose strict modes -2 and 2 act as -1 and 1
coord_to_nearest_track_lax(g, layer_id, coord, half_track, mode) ==
    LET pitch0 == TrackPitch(g, layer_id)
        pitch  == IF half_track THEN PyDiv(pitch0, 2) ELSE pitch0
        q0 == PyDiv(coord - g.offset_tracks[layer_id], pitch)
        r  == PyMod(coord - g.offset_tracks[layer_id], pitch)
        q  == IF r = 0 THEN q0
              ELSE IF mode > 0 \/ (mode = 0 /\ 2 * r >= pitch) THEN q0 + 1 ELSE q0
    IN  IF ~half_track THEN 2 * q ELSE q

\* coord_to_nearest_track whose division truncates toward zero instead of flooring
coord_to_nearest_track_trunc(g, layer_id, coord, half_track, mode) ==
    LET pitch0 == TrackPitch(g, layer_id)
        pitch  == IF half_track THEN PyDiv(pitch0, 2) ELSE pitch0
        d  == coord - g.offset_tracks[layer_id]
        q0 == IF d >= 0 THEN d \div pitch ELSE 0 - ((0 - d) \div pitch)
        r  == d - q0 * pitch
        q  == IF r = 0
              THEN (IF mode = -2 THEN q0 - 1 ELSE IF mode = 2 THEN q0 + 1 ELSE q0)
              ELSE IF mode > 0 \/ (mode = 0 /\ 2 * r >= pitch) THEN q0 + 1 ELSE q0
    IN  IF ~half_track THEN 2 * q ELSE q

\* coord_to_nearest_track (unit_mode=True); the track index is returned doubled
coord_to_nearest_track(g, layer_id, coord, half_track, mode) ==
    LET pitch0 == TrackPitch(g, layer_id)
        pitch  == IF half_track THEN PyDiv(pitch0, 2) ELSE pitch0
        q0 == PyDiv(coord - g.offset_tracks[layer_id], pitch)
        r  == PyMod(coord - g.offset_tracks[layer_id], pitch)
        q  == IF r = 0
              THEN (IF mode = -2 THEN q0 - 1 ELSE IF mode = 2 THEN q0 + 1 ELSE q0)
              ELSE IF mode > 0 \/ (mode = 0 /\ 2 * r >= pitch) THEN q0 + 1 ELSE q0
    IN  IF ~half_track THEN 2 * q ELSE q

\* get_wire_bounds (unit_mode=True) of the wire centred on track track2 / 2
get_wire_bounds(g, layer_id, track2, width) ==
    LET w == g.w_tracks[layer_id]
        sp == g.sp_tracks[layer_id]
        w_wire == width * w + (width - 1) * sp
        center == PyDiv(track2 * (w + sp), 2) + g.offset_tracks[layer_id]
        w_half == PyDiv(w_wire, 2)
    IN  <<center - w_half, center + w_half>>

\* get_track_width with resolution 1
get_track_width(g, layer_id, width_ntr) ==
    width_ntr * (g.w_tracks[layer_id] + g.sp_tracks[layer_id]) - g.sp_tracks[layer_id]

\* tr_ph and tr_wh of get_track_index_range and get_overlap_tracks
HalfPitch(g, layer_id) ==
    PyDiv(g.w_tracks[layer_id] + g.sp_tracks[layer_id], 2)

HalfWidth(g, layer_id) ==
    PyDiv(g.w_tracks[layer_id], 2)

\* "check if half track is allowed" on a first / last half-track index
OddUp(h, half_track) ==
    IF ~half_track /\ PyMod(h, 2) = 0 THEN h + 1 ELSE h

OddDown(h, half_track) ==
    IF ~half_track /\ PyMod(h, 2) = 0 THEN h - 1 ELSE h

\* the pair (start_track, end_track), both doubled, of the half-track indices hl..hu;
\* (None, None) when the range is empty
TrackPair(hl, hu) ==
    IF hu < hl THEN [none |-> TRUE, start |-> 0, stop |-> 0]
    ELSE [none |-> FALSE, start |-> hl - 1, stop |-> hu - 1]

\* hlower_bnd / hupper_bnd of get_overlap_tracks after the overlap check, h the
\* half-track index of the nearest track
OverlapLowerBnd(g, layer_id, lower, h, half_track) ==
    OddUp(IF h * HalfPitch(g, layer_id) + HalfWidth(g, layer_id) < lower THEN h + 1 ELSE h,
          half_track)

OverlapUpperBnd(g, layer_id, upper, h, half_track) ==
    OddDown(IF h * HalfPitch(g, layer_id) - HalfWidth(g, layer_id) > upper THEN h - 1 ELSE h,
            half_track)

\* get_overlap_tracks (unit_mode=True)
get_overlap_tracks(g, layer_id, lower, upper, half_track) ==
    TrackPair(OverlapLowerBnd(g, layer_id, lower,
                              coord_to_nearest_track(g, layer_id, lower, TRUE, -1) + 1,
                              half_track),
              OverlapUpperBnd(g, layer_id, upper,
                              coord_to_nearest_track(g, layer_id, upper, TRUE, 1) + 1,
                              half_track))

\* hstart_track / hend_track of get_track_index_range after the "strictly in range" check
RangeStart(g, layer_id, lower, edge_margin, h, half_track) ==
    OddUp(IF h * HalfPitch(g, layer_id) - HalfWidth(g, layer_id) < lower + edge_margin
          THEN h + 1 ELSE h,
          half_track)

RangeEnd(g, layer_id, upper, edge_margin, h, half_track) ==
    OddDown(IF h * HalfPitch(g, layer_id) + HalfWidth(g, layer_id) > upper - edge_margin
            THEN h - 1 ELSE h,
            half_track)

\* get_track_index_range (unit_mode=True), num_space an integer number of tracks
get_track_index_range(g, layer_id, lower, upper, num_space, edge_margin, half_track) ==
    TrackPair(RangeStart(g, layer_id, lower, edge_margin,
                         Max2(coord_to_nearest_track(g, layer_id, lower + edge_margin, TRUE, 2),
                              coord_to_nearest_track(g, layer_id, lower, TRUE, -1)
                                 + 2 * num_space) + 1,
                         half_track),
              RangeEnd(g, layer_id, upper, edge_margin,
                       Min2(coord_to_nearest_track(g, layer_id, upper - edge_margin, TRUE, -2),
                            coord_to_nearest_track(g, layer_id, upper, TRUE, 1)
                               - 2 * num_space) + 1,
                       half_track))

(***************************************************************************)
(* The technology query object and the interval set (bag.util.interval)    *)
(* are not part of the sources; they are modelled on the specification: a  *)
(* minimum space that is a function of the wire width, a minimum length,   *)
(* and an ordered container of disjoint half-open intervals with           *)
(* add-with-merge and subtract.                                            *)
(***************************************************************************)
\* tech_info.get_min_space: wires of at least wide_width need wide_space
get_min_space(tech, width) ==
    IF width >= tech.wide_width THEN tech.wide_space ELSE tech.min_space

\* tech_info.get_min_length
tech_min_length(tech, width) ==
    tech.min_length

\* two half-open intervals overlap
IntvOverlap(a, b) ==
    a[2] > b[1] /\ a[1] < b[2]

\* the parts of interval x outside intv
Fragments(x, intv) ==
    (IF x[1] < intv[1] THEN << <<x[1], intv[1]>> >> ELSE <<>>)
       \o (IF x[2] > intv[2] THEN << <<intv[2], x[2]>> >> ELSE <<>>)

RECURSIVE SubtractLoop(_, _, _, _, _)
SubtractLoop(intvs, intv, i, kept, new_intvs) ==
    IF i > Len(intvs) THEN [intvs |-> kept, new_intvs |-> new_intvs]
    ELSE IF IntvOverlap(intvs[i], intv)
    THEN SubtractLoop(intvs, intv, i + 1, kept \o Fragments(intvs[i], intv),
                      new_intvs \o Fragments(intvs[i], intv))
    ELSE SubtractLoop(intvs, intv, i + 1, Append(kept, intvs[i]), new_intvs)

\* IntervalSet.subtract: the intervals left, and the list of newly created intervals
IntervalSet_subtract(intvs, intv) ==
    SubtractLoop(intvs, intv, 1, <<>>, <<>>)

\* the union of intv and the intervals of intvs overlapping it
MergedIntv(intvs, intv) ==
    LET ov == {j \in 1..Len(intvs) : IntvOverlap(intvs[j], intv)}
        starts == {intvs[j][1] : j \in ov} \cup {intv[1]}
        stops == {intvs[j][2] : j \in ov} \cup {intv[2]}
    IN  <<CHOOSE s \in starts : \A x \in starts : s <= x,
          CHOOSE s \in stops : \A x \in stops : s >= x>>

\* IntervalSet.add with merge=True
IntervalSet_add(intvs, intv) ==
    SelectSeq(intvs, LAMBDA x : ~IntvOverlap(x, intv) /\ x[1] < intv[1])
       \o <<MergedIntv(intvs, intv)>>
       \o SelectSeq(intvs, LAMBDA x : ~IntvOverlap(x, intv) /\ x[1] >= intv[1])

(***************************************************************************)
(* TrackSet (fill.py): a track set ts is [tracks, min_len], tracks the     *)
(* dictionary from half-track index to its intervals.  The value stored    *)
(* with an interval is kept for the occupied wires only (a ledger is the   *)
(* list of its wires, in iteration order); the two functions below never   *)
(* read the values of the sets they build.                                 *)
(***************************************************************************)
\* del d[k] on a Python dict
DictDel(d, k) ==
    [x \in (DOMAIN d) \ {k} |-> d[x]]

NewTrackSet(min_length) ==
    [tracks |-> <<>>, min_len |-> min_length]

\* a subtraction that keeps the short fragments
RemoveShortNone(intvs, new_intvs, min_len) ==
    intvs

\* intv_set.remove of every new interval shorter than min_len
RemoveShort(intvs, new_intvs, min_len) ==
    SelectSeq(intvs, LAMBDA x : ~(/\ x[2] - x[1] < min_len
                                  /\ \E j \in 1..Len(new_intvs) : new_intvs[j] = x))

\* the end of TrackSet.subtract: the key is deleted when no interval is left
SubtractStore(ts, hidx, intvs) ==
    IF Len(intvs) = 0 THEN [ts EXCEPT !.tracks = DictDel(@, hidx)]
    ELSE [ts EXCEPT !.tracks = DictSet(@, hidx, intvs)]

SubtractResult(ts, hidx, r) ==
    SubtractStore(ts, hidx, RemoveShort(r.intvs, r.new_intvs, ts.min_len))

TrackSet_subtract(ts, hidx, intv) ==
    IF hidx \in DOMAIN ts.tracks
    THEN SubtractResult(ts, hidx, IntervalSet_subtract(ts.tracks[hidx], intv))
    ELSE ts

TrackSet_add_track(ts, hidx, intv) ==
    IF intv[2] - intv[1] >= ts.min_len
    THEN IF hidx \in DOMAIN ts.tracks
         THEN [ts EXCEPT !.tracks = DictSet(@, hidx, IntervalSet_add(ts.tracks[hidx], intv))]
         ELSE [ts EXCEPT !.tracks = DictSet(@, hidx, IntervalSet_add(<<>>, intv))]
    ELSE ts

\* for hidx in hidx_list: add_track(hidx, intv, ...), from position i on
RECURSIVE AddTracks(_, _, _, _)
AddTracks(ts, hidx_list, i, intv) ==
    IF i > Len(hidx_list) THEN ts
    ELSE AddTracks(TrackSet_add_track(ts, hidx_list[i], intv), hidx_list, i + 1, intv)

\* sorted(S) for a set of integers
RECURSIVE Sorted(_)
Sorted(S) ==
    IF S = {} THEN <<>>
    ELSE <<CHOOSE x \in S : \A y \in S : x <= y>>
            \o Sorted(S \ {CHOOSE x \in S : \A y \in S : x <= y})

\* grid.get_wire_bounds(layer_id, (hidx - 1) / 2, width=wwidth) of an occupied wire
WireBounds(g, layer_id, wire) ==
    get_wire_bounds(g, layer_id, wire.hidx - 1, wire.wwidth)

(***************************************************************************)
(* get_available_tracks (fill.py)                                          *)
(***************************************************************************)
\* fmargin = max(margin, fmargin, min_space) for a wire with bounds bnds
AvailMargin(tech, margin, wire, bnds) ==
    Max2(Max2(margin, wire.fmargin), get_min_space(tech, bnds[2] - bnds[1]))

\* for sub_idx in range(sub_idx, hidx1 + 1): avail_track_set.subtract(sub_idx, sub_intv)
RECURSIVE AvailSubtractRange(_, _, _, _)
AvailSubtractRange(ts, sub_idx, hidx1, sub_intv) ==
    IF sub_idx > hidx1 THEN ts
    ELSE AvailSubtractRange(TrackSet_subtract(ts, sub_idx, sub_intv), sub_idx + 1, hidx1,
                            sub_intv)

\* hidx0, hidx1 from the overlapping tracks ov; 2 * None raises TypeError
AvailSubtractOverlap(ts, ov, width, sub_intv) ==
    IF ov.none THEN Raise("TypeError")
    ELSE Return(AvailSubtractRange(ts, ov.start + 1 - 2 * (width - 1),
                                   ov.stop + 1 + 2 * (width - 1), sub_intv))

\* the body of the loop over the occupied wires
AvailSubtractWire(g, layer_id, ts, wire, bnds, fmargin, width) ==
    AvailSubtractOverlap(ts,
                         get_overlap_tracks(g, layer_id, bnds[1] - fmargin, bnds[2] + fmargin,
                                            TRUE),
                         width, <<wire.wstart - fmargin, wire.wstop + fmargin>>)

RECURSIVE AvailSubtractWires(_, _, _, _, _, _, _, _)
AvailSubtractWires(g, tech, layer_id, r, track_set, i, width, margin) ==
    IF r.exc # "" \/ i > Len(track_set) THEN r
    ELSE AvailSubtractWires(g, tech, layer_id,
                            AvailSubtractWire(g, layer_id, r.val, track_set[i],
                                              WireBounds(g, layer_id, track_set[i]),
                                              AvailMargin(tech, margin, track_set[i],
                                                          WireBounds(g, layer_id, track_set[i])),
                                              width),
                            track_set, i + 1, width, margin)

\* the sorted keys returned as they are, not converted back to track indices
HidxToTracksRaw(hidx_arr) ==
    hidx_arr

\* ((hidx_arr - 1) // 2).tolist() over the sorted keys
HidxToTracks(hidx_arr) ==
    [i \in 1..Len(hidx_arr) |-> PyDiv(hidx_arr[i] - 1, 2)]

AvailAnswer(r) ==
    IF r.exc # "" THEN r ELSE Return(HidxToTracks(Sorted(DOMAIN r.val.tracks)))

\* the half-track indices 2 * tidx + 1 of the candidates
CandidateHidx(tr_idx_list) ==
    [i \in 1..Len(tr_idx_list) |-> 2 * tr_idx_list[i] + 1]

get_available_tracks(g, tech, layer_id, tr_idx_list, lower, upper, width, margin, track_set) ==
    AvailAnswer(AvailSubtractWires(g, tech, layer_id,
                                   Return(AddTracks(NewTrackSet(upper - lower),
                                                    CandidateHidx(tr_idx_list), 1,
                                                    <<lower, upper>>)),
                                   track_set, 1, width, margin))

(***************************************************************************)
(* get_power_fill_tracks (fill.py), debug=False                            *)
(***************************************************************************)
\* num_half_pitch of get_num_space_tracks
NumHalfPitch(g, tech, layer_id, width_ntr) ==
    0 - PyDiv(0 - (get_min_space(tech, get_track_width(g, layer_id, width_ntr))
                   - g.sp_tracks[layer_id]),
              HalfPitch(g, layer_id))

NumSpaceRound(num_half_pitch) ==
    IF PyMod(num_half_pitch, 2) = 0 THEN PyDiv(num_half_pitch, 2)
    ELSE PyDiv(num_half_pitch + 1, 2)

\* get_num_space_tracks with half_space=False
get_num_space_tracks(g, tech, layer_id, width_ntr) ==
    NumSpaceRound(NumHalfPitch(g, tech, layer_id, width_ntr))

\* grid.get_min_length(layer_id, width_ntr, unit_mode=True)
get_min_length(g, tech, layer_id, width_ntr) ==
    tech_min_length(tech, get_track_width(g, layer_id, width_ntr))

\* list(range(first, last + 1, step)) for step > 0
RangeList(first, last, step) ==
    [i \in 1..(IF last < first THEN 0 ELSE PyDiv(last - first, step) + 1)
        |-> first + (i - 1) * step]

IsSupply(fill_type) ==
    fill_type = "VDD" \/ fill_type = "VSS"

\* if sub_idx not in sup_type: sup_type[sub_idx] = fill_type
Tag(sup_type, sub_idx, fill_type) ==
    IF sub_idx \in DOMAIN sup_type THEN sup_type ELSE DictSet(sup_type, sub_idx, fill_type)

\* "substract fill": the loop over range(sub_idx, hidx1 + 1); st is [fts, sup_type]
RECURSIVE FillSubtractRange(_, _, _, _, _)
FillSubtractRange(st, sub_idx, hidx1, sub_intv, fill_type) ==
    IF sub_idx > hidx1 THEN st
    ELSE FillSubtractRange([fts |-> TrackSet_subtract(st.fts, sub_idx, sub_intv),
                            sup_type |-> IF IsSupply(fill_type)
                                         THEN Tag(st.sup_type, sub_idx, fill_type)
                                         ELSE st.sup_type],
                           sub_idx + 1, hidx1, sub_intv, fill_type)

\* a downward walk that does not break at the first fill track: every fill track from
\* hidx0 - 1 down to 0 gets fill_type
TagBelowAll(st, hidx0, fill_type) ==
    LET below == {h \in DOMAIN st.fts.tracks : h >= 0 /\ h <= hidx0 - 1}
        RECURSIVE TagEach(_, _)
        TagEach(sup_type, S) ==
            IF S = {} THEN sup_type
            ELSE LET h == CHOOSE x \in S : TRUE
                 IN  TagEach(Tag(sup_type, h, fill_type), S \ {h})
    IN  [st EXCEPT !.sup_type = TagEach(@, below)]

\* the first fill track met walking down from hidx0 - 1 to 0 gets fill_type
TagBelow(st, hidx0, fill_type) ==
    LET below == {h \in DOMAIN st.fts.tracks : h >= 0 /\ h <= hidx0 - 1}
    IN  IF below = {} THEN st
        ELSE [st EXCEPT !.sup_type =
                 Tag(@, CHOOSE h \in below : \A x \in below : x <= h, fill_type)]

\* the first fill track met walking up from hidx1 + 1 to max_fill_hidx gets fill_type
TagAbove(st, hidx1, max_fill_hidx, fill_type) ==
    LET above == {h \in DOMAIN st.fts.tracks : h >= hidx1 + 1 /\ h <= max_fill_hidx}
    IN  IF above = {} THEN st
        ELSE [st EXCEPT !.sup_type =
                 Tag(@, CHOOSE h \in above : \A x \in above : x >= h, fill_type)]

\* "assign adjacent fill tracks to fill_type"
FillAdjacent(st, hidx0, hidx1, max_fill_hidx, fill_type) ==
    IF IsSupply(fill_type)
    THEN TagAbove(TagBelow(st, hidx0, fill_type), hidx1, max_fill_hidx, fill_type)
    ELSE st

FillSubtractHidx(st, hidx0, hidx1, sub_intv, max_fill_hidx, fill_type) ==
    FillAdjacent(FillSubtractRange(st, hidx0, hidx1, sub_intv, fill_type),
                 hidx0, hidx1, max_fill_hidx, fill_type)

\* hidx0, hidx1 from the overlapping tracks ov; 2 * None raises TypeError
FillSubtractOverlap(st, ov, wire, sup_width, fmargin, max_fill_hidx) ==
    IF ov.none THEN Raise("TypeError")
    ELSE Return(FillSubtractHidx(st, ov.start + 1 - 2 * (sup_width - 1),
                                 ov.stop + 1 + 2 * (sup_width - 1),
                                 <<wire.wstart - fmargin, wire.wstop + fmargin>>,
                                 max_fill_hidx, wire.fill_type))

\* the body of the loop over the occupied wires, fmargin = max(fill_margin, fmargin)
FillSubtractWire(g, layer_id, st, wire, bnds, fmargin, sup_width, max_fill_hidx) ==
    FillSubtractOverlap(st,
                        get_overlap_tracks(g, layer_id, bnds[1] - fmargin, bnds[2] + fmargin,
                                           TRUE),
                        wire, sup_width, fmargin, max_fill_hidx)

RECURSIVE FillSubtractWires(_, _, _, _, _, _, _, _)
FillSubtractWires(g, layer_id, r, track_set, i, sup_width, fill_margin, max_fill_hidx) ==
    IF r.exc # "" \/ i > Len(track_set) THEN r
    ELSE FillSubtractWires(g, layer_id,
                           FillSubtractWire(g, layer_id, r.val, track_set[i],
                                            WireBounds(g, layer_id, track_set[i]),
                                            Max2(fill_margin, track_set[i].fmargin),
                                            sup_width, max_fill_hidx),
                           track_set, i + 1, sup_width, fill_margin, max_fill_hidx)

\* next_vdd for the k-th VDD track
NextVdd(k, remaining_tot, remaining_vdd) ==
    PyDiv((2 * k + 1) * remaining_tot + remaining_vdd, 2 * remaining_vdd)

\* the wires created on fill track hidx, one for each interval left on it
FillWires(fts, hidx) ==
    [j \in 1..Len(fts.tracks[hidx]) |-> [hidx |-> hidx, intv |-> fts.tracks[hidx][j]]]

\* the final loop over fill_hidx_list from position i on
RECURSIVE AssignLoop(_, _, _, _, _, _, _, _, _, _, _)
AssignLoop(fts, sup_type, fill_hidx_list, i, remaining_tot, remaining_vdd, k, next_vdd, cur_idx, vdd_warr_list, vss_warr_list) ==
    IF i > Len(fill_hidx_list) THEN [vdd |-> vdd_warr_list, vss |-> vss_warr_list]
    ELSE IF fill_hidx_list[i] \notin DOMAIN sup_type
    THEN IF cur_idx = next_vdd
         THEN AssignLoop(fts, sup_type, fill_hidx_list, i + 1, remaining_tot, remaining_vdd,
                         k + 1, NextVdd(k + 1, remaining_tot, remaining_vdd), cur_idx + 1,
                         vdd_warr_list \o FillWires(fts, fill_hidx_list[i]), vss_warr_list)
         ELSE AssignLoop(fts, sup_type, fill_hidx_list, i + 1, remaining_tot, remaining_vdd,
                         k, next_vdd, cur_idx + 1,
                         vdd_warr_list, vss_warr_list \o FillWires(fts, fill_hidx_list[i]))
    ELSE IF sup_type[fill_hidx_list[i]] = "VDD"
    THEN AssignLoop(fts, sup_type, fill_hidx_list, i + 1, remaining_tot, remaining_vdd,
                    k, next_vdd, cur_idx,
                    vdd_warr_list \o FillWires(fts, fill_hidx_list[i]), vss_warr_list)
    ELSE AssignLoop(fts, sup_type, fill_hidx_list, i + 1, remaining_tot, remaining_vdd,
                    k, next_vdd, cur_idx,
                    vdd_warr_list, vss_warr_list \o FillWires(fts, fill_hidx_list[i]))

\* "uniformly distribute vdd tracks among remaining tracks"
AssignStart(fts, sup_type, fill_hidx_list, remaining_tot, remaining_vdd) ==
    IF remaining_vdd = 0 THEN Raise("ZeroDivisionError")
    ELSE Return(AssignLoop(fts, sup_type, fill_hidx_list, 1, remaining_tot, remaining_vdd,
                           0, NextVdd(0, remaining_tot, remaining_vdd), 0, <<>>, <<>>))

\* remaining_tot, and remaining_vdd = remaining_tot - remaining_vss
AssignRemaining(fts, sup_type, fill_hidx_list, remaining_tot, remaining_vss) ==
    AssignStart(fts, sup_type, fill_hidx_list, remaining_tot, remaining_tot - remaining_vss)

\* num_vdd = tot_cnt // 2, num_vss = tot_cnt - num_vdd
AssignCounts(fts, sup_type, fill_hidx_list, tot_cnt, vdd_cnt, vss_cnt) ==
    AssignRemaining(fts, sup_type, fill_hidx_list, tot_cnt - vdd_cnt - vss_cnt,
                    Max2((tot_cnt - PyDiv(tot_cnt, 2)) - vss_cnt, 0))

\* the number of remaining fill tracks already assigned fill_type
TypeCount(sup_type, fill_hidx_list, fill_type) ==
    Cardinality({i \in 1..Len(fill_hidx_list) :
                    /\ fill_hidx_list[i] \in DOMAIN sup_type
                    /\ sup_type[fill_hidx_list[i]] = fill_type})

\* "count remaining fill tracks" and "assign tracks to VDD/VSS"
AssignTracks(fts, sup_type, fill_hidx_list) ==
    AssignCounts(fts, sup_type, fill_hidx_list, Len(fill_hidx_list),
                 TypeCount(sup_type, fill_hidx_list, "VDD"),
                 TypeCount(sup_type, fill_hidx_list, "VSS"))

\* the assignment with every inherited tag dropped
PowerFillAssignUntagged(r) ==
    IF r.exc # "" THEN r
    ELSE AssignTracks(r.val.fts, <<>>, Sorted(DOMAIN r.val.fts.tracks))

PowerFillAssign(r) ==
    IF r.exc # "" THEN r
    ELSE AssignTracks(r.val.fts, r.val.sup_type, Sorted(DOMAIN r.val.fts.tracks))

\* from "add all fill tracks" on; fill_hidx_list[-1] raises IndexError on an empty list
PowerFillTracks(g, tech, layer_id, track_set, sup_width, fill_margin, lower, upper, fill_hidx_list) ==
    IF Len(fill_hidx_list) = 0 THEN Raise("IndexError")
    ELSE PowerFillAssign(
             FillSubtractWires(g, layer_id,
                               Return([fts |-> AddTracks(NewTrackSet(get_min_length(g, tech,
                                                                       layer_id, sup_width)),
                                                         fill_hidx_list, 1, <<lower, upper>>),
                                       sup_type |-> <<>>]),
                               track_set, 1, sup_width, fill_margin,
                               fill_hidx_list[Len(fill_hidx_list)]))

\* first_hidx, last_hidx and fill_hidx_list; None * 2 raises TypeError
PowerFillRange(g, tech, layer_id, track_set, sup_width, fill_margin, lower, upper, num_space, rng) ==
    IF rng.none THEN Raise("TypeError")
    ELSE PowerFillTracks(g, tech, layer_id, track_set, sup_width, fill_margin, lower, upper,
                         RangeList(rng.start + 1 + sup_width - 1,
                                   rng.stop + 1 - (sup_width - 1),
                                   2 * (sup_width + num_space)))

PowerFillSpacing(g, tech, layer_id, track_set, sup_width, fill_margin, edge_margin, lower, upper, cupper, num_space) ==
    PowerFillRange(g, tech, layer_id, track_set, sup_width, fill_margin, lower, upper,
                   num_space,
                   get_track_index_range(g, layer_id, 0, cupper, num_space, edge_margin,
                                         FALSE))

\* "check if user specify supply spacing"
PowerFillSpan(g, tech, layer_id, track_set, sup_width, fill_margin, edge_margin, sup_spacing, lower, upper, cupper) ==
    IF sup_spacing >= 0 /\ sup_spacing < get_num_space_tracks(g, tech, layer_id, sup_width)
    THEN Raise("ValueError")
    ELSE PowerFillSpacing(g, tech, layer_id, track_set, sup_width, fill_margin, edge_margin,
                          lower, upper, cupper,
                          IF sup_spacing >= 0 THEN sup_spacing
                          ELSE get_num_space_tracks(g, tech, layer_id, sup_width))

get_power_fill_tracks(g, tech, bnd_box, layer_id, track_set, sup_width, fill_margin, edge_margin, sup_spacing) ==
    PowerFillSpan(g, tech, layer_id, track_set, sup_width, fill_margin, edge_margin,
                  sup_spacing, edge_margin,
                  IF g.dir_tracks[layer_id] = "x" THEN bnd_box.width_unit - edge_margin
                  ELSE bnd_box.height_unit - edge_margin,
                  IF g.dir_tracks[layer_id] = "x" THEN bnd_box.height_unit
                  ELSE bnd_box.width_unit)

(***************************************************************************)
(* The packing functions as operations.  Each behaviour is one call: Init  *)
(* draws the function and its arguments, the action applies it.            *)
(***************************************************************************)
MaxArea == 20
MaxLen == 5
MaxSp == 2
MaxBlk == 5

Offsets == {0, 3}

MaxArgs ==
    [area : 0..MaxArea, n_min : 1..MaxLen, n_max : 1..MaxLen, sp_min : 1..MaxSp,
     offset : Offsets, cyclic : BOOLEAN]

ConstArgs ==
    [area : 0..MaxArea, sp_max : 1..MaxSp, n_min : 1..MaxLen, n_max : 1..MaxLen,
     offset : Offsets]

HelperArgs ==
    [tot_area : 0..MaxArea, num_blk_tot : 1..MaxBlk, sp : 1..MaxSp, offset : Offsets,
     inc_sp : BOOLEAN, invert : BOOLEAN, fill_on_edge : BOOLEAN, cyclic : BOOLEAN]

\* a grid without layers (the packing functions use no grid)
NoGrid ==
    /\ layers = <<>>
    /\ sp_tracks = <<>>
    /\ w_tracks = <<>>
    /\ dir_tracks = <<>>
    /\ offset_tracks = <<>>
    /\ max_num_tr_tracks = <<>>
    /\ block_pitch = <<>>
    /\ _flip_parity = <<>>
    /\ _ignore_layers = {}
    /\ w_override = <<>>
    /\ private_layers = <<>>

InitPack ==
    /\ pc = "call"
    /\ ret = <<>>
    /\ exc = ""
    /\ NoGrid
    /\ \/ op = "fill_symmetric_max" /\ args \in MaxArgs
       \/ op = "fill_symmetric_const_space" /\ args \in ConstArgs
       \/ op = "_fill_symmetric_helper" /\ args \in HelperArgs

\* the call returns r.val or raises r.exc
Finish(r) ==
    /\ pc' = "done"
    /\ exc' = r.exc
    /\ ret' = r.val
    /\ UNCHANGED <<op, args>>

CallFillSymmetricMax ==
    /\ pc = "call"
    /\ op = "fill_symmetric_max"
    /\ Finish(fill_symmetric_max(args.area, args.n_min, args.n_max, args.sp_min,
                                 args.offset, args.cyclic))
    /\ UNCHANGED grid_vars

CallFillSymmetricConstSpace ==
    /\ pc = "call"
    /\ op = "fill_symmetric_const_space"
    /\ Finish(fill_symmetric_const_space(args.area, args.sp_max, args.n_min, args.n_max,
                                         args.offset))
    /\ UNCHANGED grid_vars

\* the helper returns the pair (ans, same_sp)
HelperPair(r) ==
    IF r.exc # "" THEN r ELSE Return(<<r.val.ans, r.val.same_sp>>)

CallFillSymmetricHelper ==
    /\ pc = "call"
    /\ op = "_fill_symmetric_helper"
    /\ Finish(HelperPair(_fill_symmetric_helper(args.tot_area, args.num_blk_tot, args.sp,
                                                args.offset, args.inc_sp, args.invert,
                                                args.fill_on_edge, args.cyclic)))
    /\ UNCHANGED grid_vars

NextPack ==
    \/ CallFillSymmetricMax
    \/ CallFillSymmetricConstSpace
    \/ CallFillSymmetricHelper

SpecPack == InitPack /\ [][NextPack]_vars

(***************************************************************************)
(* Properties of the packing functions.                                    *)
(***************************************************************************)
PackOps == {"fill_symmetric_max", "fill_symmetric_const_space", "_fill_symmetric_helper"}

\* the operation o has returned (without raising)
Returned(o) ==
    pc = "done" /\ op = o /\ exc = ""

\* the interval list a packing call returned (the helper returns (ans, same_sp))
Blocks ==
    IF op = "_fill_symmetric_helper" THEN ret[1] ELSE ret

PackReturned ==
    pc = "done" /\ op \in PackOps /\ exc = ""

PackArea ==
    IF op = "_fill_symmetric_helper" THEN args.tot_area ELSE args.area

BlkLenAt(i) ==
    Blocks[i][2] - Blocks[i][1]

GapAfter(i) ==
    Blocks[i + 1][1] - Blocks[i][2]

BlkLens ==
    {BlkLenAt(i) : i \in 1..Len(Blocks)}

\* C1: every fill_symmetric_max call with 0 < n_min < n_max, sp_min >= 1, area >= 0
\* that returns a non-empty list returns blocks of length in [n_min, n_max] with every
\* gap between consecutive blocks >= sp_min, and in cyclic mode a wrap-around gap
\* (first.start - offset) + (offset + area - last.stop) >= sp_min.
C1_MaxRespectsBounds ==
    (/\ Returned("fill_symmetric_max")
     /\ 0 < args.n_min /\ args.n_min < args.n_max /\ args.sp_min >= 1 /\ args.area >= 0
     /\ ret # <<>>)
    => /\ \A i \in 1..Len(ret) : args.n_min <= BlkLenAt(i) /\ BlkLenAt(i) <= args.n_max
       /\ \A i \in 1..(Len(ret) - 1) : GapAfter(i) >= args.sp_min
       /\ args.cyclic =>
            (ret[1][1] - args.offset) + (args.offset + args.area - ret[Len(ret)][2])
                >= args.sp_min

\* the spaces of a fill_symmetric_const_space result: before the first block,
\* between consecutive blocks, after the last block
ConstSpaces ==
    {ret[1][1] - args.offset, args.offset + args.area - ret[Len(ret)][2]}
        \cup {GapAfter(i) : i \in 1..(Len(ret) - 1)}

\* C2: every fill_symmetric_const_space call with 0 < n_min <= n_max, sp_max >= 1,
\* area >= 0 that returns a non-empty list has every space (edge spaces included)
\* <= sp_max, any two spaces differing by at most 1, and every block length in
\* [n_min, n_max].
C2_ConstSpaceRespectsBounds ==
    (/\ Returned("fill_symmetric_const_space")
     /\ 0 < args.n_min /\ args.n_min <= args.n_max /\ args.sp_max >= 1 /\ args.area >= 0
     /\ ret # <<>>)
    => /\ \A s \in ConstSpaces : s <= args.sp_max
       /\ \A s \in ConstSpaces : \A t \in ConstSpaces : s - t <= 1
       /\ \A i \in 1..Len(ret) : args.n_min <= BlkLenAt(i) /\ BlkLenAt(i) <= args.n_max

BlockSet ==
    {Blocks[i] : i \in 1..Len(Blocks)}

\* C3: every list a packing call returns is invariant, as a set, under the reflection
\* x -> (area + 2*offset) - x: with [a, b) it holds [area + 2*offset - b, area + 2*offset - a).
C3_ReflectionSymmetric ==
    PackReturned
    => \A b \in BlockSet :
          <<PackArea + 2 * args.offset - b[2], PackArea + 2 * args.offset - b[1]>> \in BlockSet

\* C4: every list a packing call returns has start < stop in every interval and
\* stop_i <= start_(i+1) for consecutive intervals (sorted, pairwise disjoint).
C4_SortedDisjoint ==
    PackReturned
    => /\ \A i \in 1..Len(Blocks) : Blocks[i][1] < Blocks[i][2]
       /\ \A i \in 1..(Len(Blocks) - 1) : Blocks[i][2] <= Blocks[i + 1][1]

\* C5: the fill blocks returned by fill_symmetric_max, fill_symmetric_const_space or
\* _fill_symmetric_helper with invert = False have at most two distinct lengths, and
\* two distinct lengths differ by exactly 1.
C5_TwoLengths ==
    (PackReturned /\ (op = "_fill_symmetric_helper" => ~args.invert))
    => /\ Cardinality(BlkLens) <= 2
       /\ \A x \in BlkLens : \A y \in BlkLens : x - y <= 1

\* a returned list that holds blocks of two lengths, from a helper call that spreads
\* more than one leftover unit and has a middle block
C5_Witness ==
    /\ Returned("_fill_symmetric_helper")
    /\ ~args.invert
    /\ Cardinality(BlkLens) = 2
    /\ Len(Blocks) >= 5
    /\ Len(Blocks) % 2 = 1

(***************************************************************************)
(* Coordinate queries on a grid.  Init is a grid constructed with one      *)
(* horizontal layer and a pending query; add_new_layer may re-register the *)
(* layer (override, share_track) before the query runs.                    *)
(***************************************************************************)
MaxCoord == 12
MaxTrack2 == 8
DefaultMaxNumTr == 100

Layer1 == 1

SpaceVals == {2, 5, 6}
WidthVals == {2, 4}
Coords == (0 - MaxCoord)..MaxCoord
Modes == {-2, -1, 0, 1, 2}

CoordToTrackArgs ==
    [layer_id : {Layer1}, coord : Coords]

TrackToCoordArgs ==
    [layer_id : {Layer1}, track2 : (0 - MaxTrack2)..MaxTrack2]

NearestTrackArgs ==
    [layer_id : {Layer1}, coord : Coords, half_track : BOOLEAN, mode : Modes]

InitGrid ==
    /\ pc = "call"
    /\ ret = <<>>
    /\ exc = ""
    /\ \E sp \in SpaceVals, w \in WidthVals :
          GridIs(RoutingGrid_init(<<Layer1>>, <<sp>>, <<w>>, "x", DefaultMaxNumTr))
    /\ \/ op = "coord_to_track" /\ args \in CoordToTrackArgs
       \/ op = "track_to_coord" /\ args \in TrackToCoordArgs
       \/ op = "coord_to_nearest_track" /\ args \in NearestTrackArgs

\* add_new_layer on the grid, before the pending query: the layer tables change, or
\* the call raises and changes nothing
AddNewLayer ==
    /\ pc = "call"
    /\ \E tr_space \in SpaceVals, tr_width \in WidthVals, share_track \in BOOLEAN,
          override \in BOOLEAN :
          LET r == add_new_layer(Grid, Layer1, tr_space, tr_width, "x", DefaultMaxNumTr,
                                 share_track, override)
          IN  /\ exc' = r.exc
              /\ IF r.exc = "" THEN GridBecomes(r.val) ELSE UNCHANGED grid_vars
    /\ UNCHANGED <<pc, op, args, ret>>

CallCoordToTrack ==
    /\ pc = "call"
    /\ op = "coord_to_track"
    /\ Finish(coord_to_track(Grid, args.layer_id, args.coord))
    /\ UNCHANGED grid_vars

CallTrackToCoord ==
    /\ pc = "call"
    /\ op = "track_to_coord"
    /\ Finish(Return(track_to_coord(Grid, args.layer_id, args.track2)))
    /\ UNCHANGED grid_vars

CallCoordToNearestTrack ==
    /\ pc = "call"
    /\ op = "coord_to_nearest_track"
    /\ Finish(Return(coord_to_nearest_track(Grid, args.layer_id, args.coord,
                                            args.half_track, args.mode)))
    /\ UNCHANGED grid_vars

NextGrid ==
    \/ AddNewLayer
    \/ CallCoordToTrack
    \/ CallTrackToCoord
    \/ CallCoordToNearestTrack

SpecGrid == InitGrid /\ [][NextGrid]_vars

(***************************************************************************)
(* Properties of the coordinate queries.                                   *)
(***************************************************************************)
\* doubled track indices wide enough to bracket every coordinate of Coords
TrackRange == (0 - (MaxCoord + 4))..(MaxCoord + 4)

\* C8: coord_to_track and track_to_coord are mutually inverse in resolution units:
\* where coord_to_track(c) succeeds, track_to_coord of its result is c; and for every
\* half-integer track index t, coord_to_track(track_to_coord(t)) succeeds with t.
C8_RoundTrip ==
    /\ Returned("coord_to_track")
          => track_to_coord(Grid, args.layer_id, ret) = args.coord
    /\ (pc = "done" /\ op = "track_to_coord")
          => /\ exc = ""
             /\ coord_to_track(Grid, args.layer_id, ret) = Return(args.track2)

\* a negative coordinate on a share_track layer (offset 0) converted to a negative
\* odd half-integer index
C8_Witness ==
    /\ Returned("coord_to_track")
    /\ offset_tracks[args.layer_id] = 0
    /\ args.coord < 0
    /\ ret < 0
    /\ ret % 2 = 1

\* the coordinate of the pending coord_to_track call, relative to the track origin
RelCoord ==
    args.coord - offset_tracks[args.layer_id]

\* RelCoord is k pitches / k pitches and a half from the origin
OnTrackAt(k) ==
    RelCoord = k * (sp_tracks[args.layer_id] + w_tracks[args.layer_id])

OnHalfTrackAt(k) ==
    2 * RelCoord = (2 * k + 1) * (sp_tracks[args.layer_id] + w_tracks[args.layer_id])

\* C9: coord_to_track returns the integer index k exactly when coord - offset is k
\* pitches, the half-integer index k + 1/2 exactly when coord - offset is k pitches
\* plus half a pitch, and raises for every other coordinate; it never rounds.
C9_OffGridRejected ==
    (pc = "done" /\ op = "coord_to_track")
    => /\ \A k \in TrackRange : OnTrackAt(k) => (exc = "" /\ ret = 2 * k)
       /\ \A k \in TrackRange : OnHalfTrackAt(k) => (exc = "" /\ ret = 2 * k + 1)
       /\ (\A k \in TrackRange : ~OnTrackAt(k) /\ ~OnHalfTrackAt(k)) => exc = "ValueError"

\* a coordinate one unit above a half-track position is rejected
C9_Witness ==
    /\ pc = "done"
    /\ op = "coord_to_track"
    /\ exc = "ValueError"
    /\ \E k \in TrackRange :
          2 * (RelCoord - 1) = (2 * k + 1) * (sp_tracks[args.layer_id] + w_tracks[args.layer_id])

\* the doubled indices coord_to_nearest_track may return
AllowedTracks ==
    {t \in TrackRange : args.half_track \/ t % 2 = 0}

TrackCoord(t) ==
    track_to_coord(Grid, args.layer_id, t)

Dist(a, b) ==
    IF a >= b THEN a - b ELSE b - a

\* C10: coord_to_nearest_track returns, among the allowed tracks (all half-integer
\* indices when half_track, integer indices only otherwise): mode -1 the largest with
\* coordinate <= c, mode -2 the largest with coordinate < c, mode 1 the smallest with
\* coordinate >= c, mode 2 the smallest with coordinate > c, mode 0 one at minimum
\* distance from c.
C10_RoundingModes ==
    Returned("coord_to_nearest_track")
    => /\ ret \in AllowedTracks
       /\ args.mode = -1 =>
             /\ TrackCoord(ret) <= args.coord
             /\ \A t \in AllowedTracks : TrackCoord(t) <= args.coord => t <= ret
       /\ args.mode = -2 =>
             /\ TrackCoord(ret) < args.coord
             /\ \A t \in AllowedTracks : TrackCoord(t) < args.coord => t <= ret
       /\ args.mode = 1 =>
             /\ TrackCoord(ret) >= args.coord
             /\ \A t \in AllowedTracks : TrackCoord(t) >= args.coord => t >= ret
       /\ args.mode = 2 =>
             /\ TrackCoord(ret) > args.coord
             /\ \A t \in AllowedTracks : TrackCoord(t) > args.coord => t >= ret
       /\ args.mode = 0 =>
             \A t \in AllowedTracks :
                Dist(TrackCoord(ret), args.coord) <= Dist(TrackCoord(t), args.coord)

\* a strict-mode query at a coordinate exactly on an integer track, half tracks not
\* allowed: the result is the integer track one below
C10_Witness ==
    /\ Returned("coord_to_nearest_track")
    /\ ~args.half_track
    /\ args.mode = -2
    /\ TrackCoord(ret + 2) = args.coord

(***************************************************************************)
(* The track queries of the fill allocator as operations.  Init is a grid  *)
(* with one layer added by add_new_layer (with or without share_track) and *)
(* a pending call with its arguments; the ledger of occupied wires is an   *)
(* argument, listed in the iteration order of TrackSet.items().            *)
(***************************************************************************)
MaxWires == 2
MaxMargin == 3

LayerSpace == 2
LayerWidth == 2

\* the technology of the grid: minimum spaces and minimum length
Techs ==
    {[min_space |-> 0, wide_width |-> 6, wide_space |-> 3, min_length |-> 2],
     [min_space |-> 2, wide_width |-> 6, wide_space |-> 5, min_length |-> 5]}

\* an occupied wire: ((wstart, wstop), (wwidth, (fmargin, fill_type))) on track hidx;
\* fill_type "" stands for no supply type
AvailWires ==
    [hidx : {3, 4}, intv : {<<0, 4>>, <<8, 12>>}, wwidth : {1, 2}, fmargin : {0, 2},
     fill_type : {""}]

PowerWires ==
    [hidx : {3, 5, 9}, intv : {<<0, 12>>, <<3, 9>>}, wwidth : {1}, fmargin : {0},
     fill_type : {"", "VDD", "VSS"}]

\* the wire of a choice c of AvailWires or PowerWires
WireOf(c) ==
    [hidx |-> c.hidx, wstart |-> c.intv[1], wstop |-> c.intv[2], wwidth |-> c.wwidth,
     fmargin |-> c.fmargin, fill_type |-> c.fill_type]

\* the wires of one track are listed together, sorted, and do not overlap
WellFormed(s) ==
    \A i \in 1..Len(s), j \in 1..Len(s) :
       (i < j /\ s[i].hidx = s[j].hidx)
       => /\ s[i].wstop <= s[j].wstart
          /\ \A k \in i..j : s[k].hidx = s[i].hidx

Ledgers(choices) ==
    {s \in UNION {[1..n -> {WireOf(c) : c \in choices}] : n \in 0..MaxWires} : WellFormed(s)}

AvailArgs ==
    [layer_id : {Layer1}, tech : Techs, tr_idx_list : {<<0, 1, 2, 3>>, <<4, 2, 2>>},
     lower : {0}, upper : {6}, width : {1, 2}, margin : {0, 1, MaxMargin},
     track_set : Ledgers(AvailWires)]

PowerFillArgs ==
    [layer_id : {Layer1}, tech : Techs, bnd_box : {[width_unit |-> 12, height_unit |-> 20]},
     sup_width : {1, 2}, fill_margin : {0, 1}, edge_margin : {0, 1}, sup_spacing : {-1, 0, 1},
     track_set : Ledgers(PowerWires)]

\* RoutingGrid(tech_info, [], [], [], 'x') followed by add_new_layer
FillGrid(share_track, direction) ==
    add_new_layer(RoutingGrid_init(<<>>, <<>>, <<>>, "x", DefaultMaxNumTr), Layer1,
                  LayerSpace, LayerWidth, direction, DefaultMaxNumTr, share_track, FALSE).val

InitFill ==
    /\ pc = "call"
    /\ ret = <<>>
    /\ exc = ""
    /\ \/ /\ op = "get_available_tracks"
          /\ args \in AvailArgs
          /\ \E share_track \in BOOLEAN : GridIs(FillGrid(share_track, "x"))
       \/ /\ op = "get_power_fill_tracks"
          /\ args \in PowerFillArgs
          /\ \E share_track \in BOOLEAN, direction \in {"x", "y"} :
                GridIs(FillGrid(share_track, direction))

CallGetAvailableTracks ==
    /\ pc = "call"
    /\ op = "get_available_tracks"
    /\ Finish(get_available_tracks(Grid, args.tech, args.layer_id, args.tr_idx_list,
                                   args.lower, args.upper, args.width, args.margin,
                                   args.track_set))
    /\ UNCHANGED grid_vars

CallGetPowerFillTracks ==
    /\ pc = "call"
    /\ op = "get_power_fill_tracks"
    /\ Finish(get_power_fill_tracks(Grid, args.tech, args.bnd_box, args.layer_id,
                                    args.track_set, args.sup_width, args.fill_margin,
                                    args.edge_margin, args.sup_spacing))
    /\ UNCHANGED grid_vars

NextFill ==
    \/ CallGetAvailableTracks
    \/ CallGetPowerFillTracks

SpecFill == InitFill /\ [][NextFill]_vars

(***************************************************************************)
(* Properties of the track queries.                                        *)
(***************************************************************************)
\* the fill tracks (half-track indices) of a list of fill wires
FillTracksOf(warr_list) ==
    {warr_list[i].hidx : i \in 1..Len(warr_list)}

\* C6: when get_power_fill_tracks returns, the number of fill tracks emitted as VDD is
\* floor(total / 2) and the number emitted as VSS is ceil(total / 2), total being the
\* number of fill tracks emitted.
C6_FillBalance ==
    Returned("get_power_fill_tracks")
    => LET total == Cardinality(FillTracksOf(ret.vdd) \cup FillTracksOf(ret.vss))
       IN  /\ Cardinality(FillTracksOf(ret.vdd)) = total \div 2
           /\ Cardinality(FillTracksOf(ret.vss)) = total - (total \div 2)

\* the wire of the requested width centred on track t is at least m away from the
\* footprint bnds of an occupied wire
ClearOf(t, bnds, m) ==
    \/ get_wire_bounds(Grid, args.layer_id, 2 * t, args.width)[1] >= bnds[2] + m
    \/ get_wire_bounds(Grid, args.layer_id, 2 * t, args.width)[2] <= bnds[1] - m

\* [lower, upper) does not intersect the extent of the wire widened by m
OutOfReach(wire, m) ==
    \/ args.upper <= wire.wstart - m
    \/ args.lower >= wire.wstop + m

\* the margin m of the claim for an occupied wire
MarginOf(wire) ==
    AvailMargin(args.tech, args.margin, wire, WireBounds(Grid, args.layer_id, wire))

\* C7: every track index returned by get_available_tracks is free of conflict with
\* every occupied wire: with m the largest of margin, the stored margin and the
\* technology's minimum space for the wire, either the footprint of a wire of the
\* requested width on the track is at least m away from the occupied wire's footprint,
\* or [lower, upper) does not intersect the wire's extent widened by m.
C7_MarginSafety ==
    Returned("get_available_tracks")
    => \A i \in 1..Len(ret), j \in 1..Len(args.track_set) :
          \/ ClearOf(ret[i], WireBounds(Grid, args.layer_id, args.track_set[j]),
                     MarginOf(args.track_set[j]))
          \/ OutOfReach(args.track_set[j], MarginOf(args.track_set[j]))

(***************************************************************************)
(* Further properties of the coordinate queries (SpecGrid).                *)
(***************************************************************************)
\* the pending coord_to_nearest_track query asked at coordinate c in mode m
NearestAt(c, m) ==
    coord_to_nearest_track(Grid, args.layer_id, c, args.half_track, m)

\* C11: for a fixed layer and half_track setting, coord_to_nearest_track in floor mode
\* (-1) and in ceil mode (1) is monotone non-decreasing in the coordinate, and for
\* every coordinate the mode 0 result lies between the floor and the ceil result.
C11_MonotoneRounding ==
    Returned("coord_to_nearest_track")
    => /\ args.mode \in {-1, 1}
             => \A c \in Coords : c >= args.coord => ret <= NearestAt(c, args.mode)
       /\ args.mode = 0
             => /\ NearestAt(args.coord, -1) <= ret
                /\ ret <= NearestAt(args.coord, 1)

\* a ceil query at a negative coordinate just below a track: one unit further the
\* result steps up
C11_Witness ==
    /\ Returned("coord_to_nearest_track")
    /\ args.mode = 1
    /\ args.coord < 0
    /\ NearestAt(args.coord, 1) = ret
    /\ NearestAt(args.coord + 1, 1) > ret

(***************************************************************************)
(* Construction of a grid.  Init is the moment before RoutingGrid(...) is  *)
(* called with its layer lists; afterwards layers may be added or          *)
(* overridden with add_new_layer, which leaves block_pitch as it is until  *)
(* update_block_pitch is called.  pc is "new" before the constructor ran,  *)
(* "built" when block_pitch was computed from the present layer tables,    *)
(* "stale" after an add_new_layer that came later.  update_block_pitch     *)
(* recomputes every entry from the layer tables, so what it leaves does    *)
(* not depend on the number of add_new_layer calls before it: the model    *)
(* takes one add_new_layer between two computations of the block pitch.    *)
(***************************************************************************)
MaxLayerId == 3

\* lengths given for tr_width; tr_space is LayerSpace
PitchLens == {2, 4}

\* the layers, spaces, widths lists of the constructor (of equal length, the layer
\* ids distinct) and bot_dir
InitArgs ==
    {a \in [layers : {<<1, 2, 3>>, <<3, 1>>, <<2>>}, spaces : UNION {[1..n -> {LayerSpace}] : n \in 1..3},
            widths : UNION {[1..n -> PitchLens] : n \in 1..3}, bot_dir : {"x", "y"}] :
        Len(a.spaces) = Len(a.layers) /\ Len(a.widths) = Len(a.layers)}

InitPitch ==
    /\ pc = "new"
    /\ op = "RoutingGrid"
    /\ args \in InitArgs
    /\ ret = <<>>
    /\ exc = ""
    /\ NoGrid

Construct ==
    /\ pc = "new"
    /\ pc' = "built"
    /\ GridBecomes(RoutingGrid_init(args.layers, args.spaces, args.widths, args.bot_dir,
                                    DefaultMaxNumTr))
    /\ UNCHANGED <<op, args, ret, exc>>

\* add_new_layer on the constructed grid (share_track left at its default): the layer
\* tables change and block_pitch is left as it was, or the call raises and changes
\* nothing
AddLayer ==
    /\ pc = "built"
    /\ \E layer_id \in 1..MaxLayerId, tr_width \in PitchLens, direction \in {"x", "y"},
          override \in BOOLEAN :
          LET r == add_new_layer(Grid, layer_id, LayerSpace, tr_width, direction,
                                 DefaultMaxNumTr, FALSE, override)
          IN  /\ exc' = r.exc
              /\ IF r.exc = ""
                 THEN GridBecomes(r.val) /\ pc' = "stale"
                 ELSE UNCHANGED grid_vars /\ pc' = pc
    /\ UNCHANGED <<op, args, ret>>

UpdateBlockPitch ==
    /\ pc \in {"built", "stale"}
    /\ pc' = "built"
    /\ GridBecomes(update_block_pitch(Grid))
    /\ UNCHANGED <<op, args, ret, exc>>

NextPitch ==
    \/ Construct
    \/ AddLayer
    \/ UpdateBlockPitch

SpecPitch == InitPitch /\ [][NextPitch]_vars

(***************************************************************************)
(* Properties of the block pitch.                                          *)
(***************************************************************************)
LayerIds ==
    {layers[i] : i \in 1..Len(layers)}

\* the layers at or below L with the direction of L
SameDirBelow(L) ==
    {K \in LayerIds : K <= L /\ dir_tracks[K] = dir_tracks[L]}

\* m is a common multiple of w + sp over the layers of S
CommonMultiple(m, S) ==
    \A K \in S : m % (w_tracks[K] + sp_tracks[K]) = 0

\* C12: after the constructor and after every update_block_pitch, the block pitch of
\* every layer L is the least common multiple of w + sp over L and the lower layers
\* with the direction of L: a common multiple of them, and no smaller positive number
\* is one.  Layers of the other direction do not contribute.
C12_BlockPitchIsLcm ==
    pc = "built"
    => /\ DOMAIN block_pitch = LayerIds
       /\ \A L \in LayerIds :
             /\ block_pitch[L] > 0
             /\ CommonMultiple(block_pitch[L], SameDirBelow(L))
             /\ \A m \in 1..(block_pitch[L] - 1) : ~CommonMultiple(m, SameDirBelow(L))

\* a layer whose block pitch is larger than its own pitch and than that of the
\* same-direction layer below it, and a layer whose block pitch is no multiple of the
\* pitch of a lower layer of the other direction
C12_Witness ==
    /\ pc = "built"
    /\ \E L \in LayerIds, K \in LayerIds :
          /\ K < L
          /\ dir_tracks[K] = dir_tracks[L]
          /\ block_pitch[L] > w_tracks[L] + sp_tracks[L]
          /\ block_pitch[L] > w_tracks[K] + sp_tracks[K]
    /\ \E L \in LayerIds, X \in LayerIds :
          /\ X < L
          /\ dir_tracks[X] # dir_tracks[L]
          /\ block_pitch[L] % (w_tracks[X] + sp_tracks[X]) # 0

(***************************************************************************)
(* The track range queries: one call of get_track_index_range or of        *)
(* get_overlap_tracks on a grid of one layer, with the track offset        *)
(* half a pitch or, with share_track, zero.                                *)
(***************************************************************************)
\* RoutingGrid(tech_info, [], [], [], 'x') followed by add_new_layer of width tr_width
RangeGrid(tr_width, share_track) ==
    add_new_layer(RoutingGrid_init(<<>>, <<>>, <<>>, "x", DefaultMaxNumTr), Layer1,
                  LayerSpace, tr_width, "x", DefaultMaxNumTr, share_track, FALSE).val

InitRange ==
    /\ pc = "call"
    /\ ret = <<>>
    /\ exc = ""
    /\ \E tr_width \in WidthVals, share_track \in BOOLEAN : GridIs(RangeGrid(tr_width, share_track))
    /\ \/ /\ op = "get_track_index_range"
          /\ args \in {a \in [layer_id : {Layer1}, lower : 0..MaxCoord, upper : 0..MaxCoord,
                              num_space : {0, 1}, edge_margin : 0..MaxMargin,
                              half_track : BOOLEAN] : a.lower < a.upper}
       \/ /\ op = "get_overlap_tracks"
          /\ args \in {a \in [layer_id : {Layer1}, lower : 0..MaxCoord, upper : 0..MaxCoord,
                              half_track : BOOLEAN] : a.lower < a.upper}

CallGetTrackIndexRange ==
    /\ pc = "call"
    /\ op = "get_track_index_range"
    /\ Finish(Return(get_track_index_range(Grid, args.layer_id, args.lower, args.upper,
                                           args.num_space, args.edge_margin,
                                           args.half_track)))
    /\ UNCHANGED grid_vars

CallGetOverlapTracks ==
    /\ pc = "call"
    /\ op = "get_overlap_tracks"
    /\ Finish(Return(get_overlap_tracks(Grid, args.layer_id, args.lower, args.upper,
                                        args.half_track)))
    /\ UNCHANGED grid_vars

NextRange ==
    \/ CallGetTrackIndexRange
    \/ CallGetOverlapTracks

SpecRange == InitRange /\ [][NextRange]_vars

(***************************************************************************)
(* Properties of the track range queries.  Track indices are doubled.      *)
(***************************************************************************)
\* the footprint of the unit-width wire on track t / 2
UnitBounds(t) ==
    get_wire_bounds(Grid, args.layer_id, t, 1)

\* track t / 2 meets every condition of get_track_index_range for the pending call
FitsRange(t) ==
    /\ UnitBounds(t)[1] >= args.lower + args.edge_margin
    /\ UnitBounds(t)[2] <= args.upper - args.edge_margin
    /\ t >= coord_to_nearest_track(Grid, args.layer_id, args.lower, TRUE, -1) + 2 * args.num_space
    /\ t <= coord_to_nearest_track(Grid, args.layer_id, args.upper, TRUE, 1) - 2 * args.num_space

\* C13: when get_track_index_range returns (s, e) other than (None, None), s <= e, the
\* unit-width footprint of s starts at or above lower + edge_margin and that of e ends
\* at or below upper - edge_margin, s is at least num_space tracks above the floor
\* track of lower and e at least num_space tracks below the ceil track of upper, and
\* both are integers when half_track is false; when no allowed track meets these
\* conditions it returns (None, None).  On layers of either track offset.
C13_RangeContract ==
    Returned("get_track_index_range")
    => /\ ~ret.none
          => /\ ret.start <= ret.stop
             /\ UnitBounds(ret.start)[1] >= args.lower + args.edge_margin
             /\ UnitBounds(ret.stop)[2] <= args.upper - args.edge_margin
             /\ ret.start >= coord_to_nearest_track(Grid, args.layer_id, args.lower, TRUE, -1) + 2 * args.num_space
             /\ ret.stop <= coord_to_nearest_track(Grid, args.layer_id, args.upper, TRUE, 1) - 2 * args.num_space
             /\ ~args.half_track => ret.start % 2 = 0 /\ ret.stop % 2 = 0
       /\ (\A t \in AllowedTracks : ~FitsRange(t)) => ret.none

\* the unit-width footprint of track t / 2 meets the range lower..upper of the pending
\* call, a footprint that only touches the range included
Overlaps(t) ==
    /\ UnitBounds(t)[1] <= args.upper
    /\ UnitBounds(t)[2] >= args.lower

\* C14: get_overlap_tracks returns (first, last) such that an allowed track (integer, or
\* also half-integer when half_track is true) has a unit-width footprint meeting the
\* range from lower to upper if and only if it lies in first..last, and returns
\* (None, None) exactly when no allowed track's footprint meets the range.  On layers
\* of either track offset.
C14_OverlapIff ==
    Returned("get_overlap_tracks")
    => /\ ret.none <=> \A t \in AllowedTracks : ~Overlaps(t)
       /\ ~ret.none => \A t \in AllowedTracks : Overlaps(t) <=> (ret.start <= t /\ t <= ret.stop)

\* C15: get_power_fill_tracks either returns a (VDD list, VSS list) pair or fails with
\* the designated configuration error (ValueError); it never fails with a division by
\* zero, an index error or a type error.
C15_NoUnclassifiedFault ==
    pc = "done" /\ op = "get_power_fill_tracks" => exc \in {"", "ValueError"}

(***************************************************************************)
(* Further properties of the packing functions.                            *)
(***************************************************************************)
\* equal blocks of a length in n_min..n_max, at least two, abutting both boundaries
\* and separated by equal gaps of at least sp_min, fill area exactly; such an
\* arrangement is symmetric, and whenever any arrangement of the kind exists so does
\* this one (two blocks of length n_min)
UniformFit(area, n_min, n_max, sp_min) ==
    \E k \in 2..area, b \in n_min..n_max, g \in sp_min..area : k * b + (k - 1) * g = area

\* C16: a non-cyclic fill_symmetric_max call with n_min < n_max for which a symmetric
\* arrangement of at least two blocks abutting both boundaries exists, every block
\* length in n_min..n_max and every gap at least sp_min, returns a list and does not
\* raise.
C16_RaisesOnlyWithoutSolution ==
    /\ pc = "done"
    /\ op = "fill_symmetric_max"
    /\ ~args.cyclic
    /\ args.n_min < args.n_max
    /\ UniformFit(args.area, args.n_min, args.n_max, args.sp_min)
    => exc = ""

\* the call fill_symmetric_max(area=20, n_min=2, n_max=4, sp_min=2) has finished
ExampleCall ==
    /\ pc = "done"
    /\ op = "fill_symmetric_max"
    /\ args = [area |-> 20, n_min |-> 2, n_max |-> 4, sp_min |-> 2, offset |-> 0, cyclic |-> FALSE]

\* C20 as stated: fill_symmetric_max(area=20, n_min=2, n_max=4, sp_min=2) with offset 0
\* and cyclic false returns 3 blocks of length 4 separated by space 2.
C20_ThreeBlocksOfFour ==
    ExampleCall
    => /\ exc = ""
       /\ Len(ret) = 3
       /\ \A i \in 1..3 : BlkLenAt(i) = 4
       /\ \A i \in 1..2 : GapAfter(i) = 2

\* C20 amended: the call returns the 4 blocks (0, 4), (6, 9), (11, 14), (16, 20), of
\* lengths 4, 3, 3, 4 separated by space 2, which abut both boundaries of the area.
C20_FourBlocks ==
    ExampleCall
    => /\ exc = ""
       /\ ret = << <<0, 4>>, <<6, 9>>, <<11, 14>>, <<16, 20>> >>

C20_Witness ==
    /\ ExampleCall
    /\ exc = ""
    /\ Len(ret) = 4
    /\ ret[1][1] = 0
    /\ ret[4][2] = args.area

(***************************************************************************)
(* The occupancy ledger: a UsedTracks object, a dictionary from layer id   *)
(* to TrackSet whose interval sets store the value [width, value] with     *)
(* each interval (an item is <<interval, value>>).  The same insertion is  *)
(* made twice, by TrackSet.add_track on get_tracks_info(layer_id) or by    *)
(* add_wire_arrays; the calls return None, and ret holds the ledger they   *)
(* act on.  IntervalSet.add is modelled on the specification: the new      *)
(* interval is merged with the intervals it overlaps and the merged        *)
(* interval carries the value written last.                                *)
(***************************************************************************)
\* IntervalSet.add that stores the interval beside the others without merging
IntervalSet_add_nomerge(items, intv, val) ==
    Append(items, <<intv, val>>)

\* IntervalSet.add(intv, val=val, merge=True) on the items of an interval set
IntervalSet_add_val(items, intv, val) ==
    SelectSeq(items, LAMBDA x : ~IntvOverlap(x[1], intv) /\ x[1][1] < intv[1])
       \o << <<MergedIntv([j \in 1..Len(items) |-> items[j][1]], intv), val>> >>
       \o SelectSeq(items, LAMBDA x : ~IntvOverlap(x[1], intv) /\ x[1][1] >= intv[1])

\* TrackSet.add_track(hidx, intv, width, value) on a track set with stored values
add_track(ts, hidx, intv, width, value) ==
    IF intv[2] - intv[1] >= ts.min_len
    THEN IF hidx \in DOMAIN ts.tracks
         THEN [ts EXCEPT !.tracks = DictSet(@, hidx, IntervalSet_add_val(ts.tracks[hidx], intv, <<width, value>>))]
         ELSE [ts EXCEPT !.tracks = DictSet(@, hidx, IntervalSet_add_val(<<>>, intv, <<width, value>>))]
    ELSE ts

\* UsedTracks.get_tracks_info / the lookup of add_wire_arrays: the layer's TrackSet,
\* a new TrackSet() when the layer has none
get_tracks_info(track_sets, layer_id) ==
    IF layer_id \in DOMAIN track_sets THEN track_sets[layer_id] ELSE NewTrackSet(0)

\* for idx in range(warr_tid.num): add_track(base_hidx + idx * step, ...), from idx on
RECURSIVE AddWireLoop(_, _, _, _, _)
AddWireLoop(ts, warr, idx, fill_margin, fill_type) ==
    IF idx >= warr.num THEN ts
    ELSE AddWireLoop(add_track(ts, warr.base_index + 1 + idx * warr.pitch,
                               <<warr.lower, warr.upper>>, warr.width,
                               <<fill_margin, fill_type>>),
                     warr, idx + 1, fill_margin, fill_type)

\* UsedTracks.add_wire_arrays of one WireArray (unit_mode=True, resolution 1); the
\* base index and the pitch of its TrackID are held doubled
add_wire_arrays(track_sets, warr, fill_margin, fill_type) ==
    DictSet(track_sets, warr.layer_id,
            AddWireLoop(get_tracks_info(track_sets, warr.layer_id), warr, 0, fill_margin,
                        fill_type))

MaxNum == 2

InitLedger ==
    /\ pc = "call"
    /\ exc = ""
    /\ NoGrid
    /\ ret \in {<<>>,
                DictSet(<<>>, Layer1, [tracks |-> DictSet(<<>>, 3, << <<<<0, 4>>, <<1, <<0, "VSS">> >> >> >>), min_len |-> 0]),
                DictSet(<<>>, Layer1, [tracks |-> DictSet(<<>>, 3, << <<<<0, 3>>, <<1, <<0, "VDD">> >> >>, <<<<6, 10>>, <<2, <<2, "VSS">> >> >> >>), min_len |-> 0])}
    /\ \/ /\ op = "add_track"
          /\ args \in [layer_id : {Layer1, Layer1 + 1}, hidx : {3, 5}, intv : {<<0, 4>>, <<2, 8>>, <<8, 12>>},
                       width : {1, 2}, value : {<<0, "VSS">>, <<2, "VDD">>}]
       \/ /\ op = "add_wire_arrays"
          /\ args \in [warr : [layer_id : {Layer1, Layer1 + 1}, base_index : {2, 4}, width : {1, 2},
                               num : 1..MaxNum, pitch : {0, 2}, lower : {0, 2}, upper : {4, 8}],
                       fill_margin : {0, 2}, fill_type : {"VSS", "VDD"}]

\* the position after one more insertion
Again ==
    /\ pc \in {"call", "once"}
    /\ pc' = IF pc = "call" THEN "once" ELSE "twice"
    /\ UNCHANGED <<op, args, exc>>
    /\ UNCHANGED grid_vars

CallAddTrack ==
    /\ op = "add_track"
    /\ Again
    /\ ret' = DictSet(ret, args.layer_id,
                      add_track(get_tracks_info(ret, args.layer_id), args.hidx, args.intv,
                                args.width, args.value))

CallAddWireArrays ==
    /\ op = "add_wire_arrays"
    /\ Again
    /\ ret' = add_wire_arrays(ret, args.warr, args.fill_margin, args.fill_type)

NextLedger ==
    \/ CallAddTrack
    \/ CallAddWireArrays

SpecLedger == InitLedger /\ [][NextLedger]_vars

\* C19: adding the same footprint (same half-track index, interval, width and value) a
\* second time, by add_track or by add_wire_arrays, leaves the keys, intervals and
\* stored values of the ledger as the first insertion left them.
C19_AddIsIdempotent ==
    [][pc = "once" => ret' = ret]_vars

\* the footprint has been added twice and it was merged with an interval that was
\* there before: a stored interval carries the written value and is not the footprint
C19_Witness ==
    /\ pc = "twice"
    /\ op = "add_track"
    /\ \E j \in 1..Len(ret[args.layer_id].tracks[args.hidx]) :
          /\ ret[args.layer_id].tracks[args.hidx][j][2] = <<args.width, args.value>>
          /\ ret[args.layer_id].tracks[args.hidx][j][1] # args.intv

(***************************************************************************)
(* Further properties of get_power_fill_tracks (SpecFill).  The tags       *)
(* inherited from the occupancy are those of sup_type when the loop over   *)
(* the occupied wires has finished; they are recomputed here for the       *)
(* pending call, which has returned.                                       *)
(***************************************************************************)
\* num_space, cupper and fill_intv of the pending call
FillNumSpace ==
    IF args.sup_spacing >= 0 THEN args.sup_spacing
    ELSE get_num_space_tracks(Grid, args.tech, args.layer_id, args.sup_width)

FillCupper ==
    IF dir_tracks[args.layer_id] = "x" THEN args.bnd_box.height_unit ELSE args.bnd_box.width_unit

FillIntv ==
    <<args.edge_margin,
      (IF dir_tracks[args.layer_id] = "x" THEN args.bnd_box.width_unit
       ELSE args.bnd_box.height_unit) - args.edge_margin>>

\* the candidate fill tracks between the track range rng
FillCandidates(rng) ==
    RangeList(rng.start + 1 + args.sup_width - 1, rng.stop + 1 - (args.sup_width - 1),
              2 * (args.sup_width + FillNumSpace))

\* fill_track_set and sup_type after the occupied wires were subtracted from the
\* candidates fill_hidx_list
FillStateOf(fill_hidx_list) ==
    FillSubtractWires(Grid, args.layer_id,
                      Return([fts |-> AddTracks(NewTrackSet(get_min_length(Grid, args.tech,
                                                              args.layer_id, args.sup_width)),
                                                fill_hidx_list, 1, FillIntv),
                              sup_type |-> <<>>]),
                      args.track_set, 1, args.sup_width, args.fill_margin,
                      fill_hidx_list[Len(fill_hidx_list)]).val

FillState ==
    FillStateOf(FillCandidates(get_track_index_range(Grid, args.layer_id, 0, FillCupper,
                                                     FillNumSpace, args.edge_margin, FALSE)))

\* the surviving fill tracks of the state st that carry an inherited tag
TaggedFill(st) ==
    (DOMAIN st.fts.tracks) \cap (DOMAIN st.sup_type)

\* every tagged surviving fill track of st is in the returned list of its type only
TagsKept(st) ==
    \A h \in TaggedFill(st) :
       IF st.sup_type[h] = "VDD"
       THEN h \in FillTracksOf(ret.vdd) /\ h \notin FillTracksOf(ret.vss)
       ELSE h \in FillTracksOf(ret.vss) /\ h \notin FillTracksOf(ret.vdd)

\* C17: when get_power_fill_tracks returns, every surviving fill track that received a
\* supply tag from the occupancy, directly or by propagation, is emitted in the list of
\* that type and not in the other.
C17_InheritedTagsKept ==
    Returned("get_power_fill_tracks") => TagsKept(FillState)

\* st has a surviving fill track tagged VDD and one tagged VSS, and untagged tracks
\* left for the balancing step
MixedTags(st) ==
    /\ \E h \in TaggedFill(st) : st.sup_type[h] = "VDD"
    /\ \E h \in TaggedFill(st) : st.sup_type[h] = "VSS"
    /\ TaggedFill(st) # DOMAIN st.fts.tracks

C17_Witness ==
    Returned("get_power_fill_tracks") /\ MixedTags(FillState)

(***************************************************************************)
(* Further properties of get_available_tracks (SpecFill).                  *)
(***************************************************************************)
\* a get_available_tracks call with an empty occupancy TrackSet has returned
EmptyOccupancy ==
    Returned("get_available_tracks") /\ args.track_set = <<>>

\* C18 as stated: with an empty occupancy TrackSet get_available_tracks returns exactly
\* tr_idx_list, the same indices in the same order with the same multiplicity.
C18_ReturnsCandidateList ==
    EmptyOccupancy => ret = args.tr_idx_list

\* C18 amended: with an empty occupancy TrackSet get_available_tracks returns the
\* distinct indices of tr_idx_list in increasing order (tr_idx_list itself when that is
\* strictly increasing).
C18_ReturnsSortedDistinct ==
    EmptyOccupancy
    => /\ {ret[i] : i \in 1..Len(ret)} = {args.tr_idx_list[i] : i \in 1..Len(args.tr_idx_list)}
       /\ \A i \in 1..(Len(ret) - 1) : ret[i] < ret[i + 1]

\* the call was made with a candidate list that is not increasing and repeats an index
C18_Witness ==
    /\ EmptyOccupancy
    /\ \E i \in 1..(Len(args.tr_idx_list) - 1) : args.tr_idx_list[i] > args.tr_idx_list[i + 1]
    /\ \E i \in 1..(Len(args.tr_idx_list) - 1) : args.tr_idx_list[i] = args.tr_idx_list[i + 1]
    /\ Len(ret) < Len(args.tr_idx_list)

(***************************************************************************)
(* The grid of src/bag/layout/routing/grid.py.  Beside the seven layer     *)
(* tables it keeps _flip_parity, _ignore_layers, w_override and            *)
(* private_layers.  add_new_layer rounds the lengths up to even numbers,   *)
(* returns at once when the layer is registered with the same record, and  *)
(* does not touch offset_tracks: an offset is set with set_track_offset.   *)
(* The methods change the containers of the grid in place and bind none of *)
(* its attributes anew.                                                    *)
(***************************************************************************)
\* -(-x // 2) * 2
RoundUpEven(x) ==
    (0 - PyDiv(0 - x, 2)) * 2

\* add_new_layer of src/bag: [exc, self], self being the grid as the call leaves it,
\* also when it raises
add_new_layer_private(g, layer_id, tr_space, tr_width, direction, max_num_tr, override, is_private) ==
    LET g0      == [g EXCEPT !._ignore_layers = @ \ {layer_id}]
        sp_unit == RoundUpEven(tr_space)
        w_unit  == RoundUpEven(tr_width)
        known   == layer_id \in DOMAIN g.sp_tracks
        same    == /\ g.w_tracks[layer_id] = w_unit
                   /\ g.sp_tracks[layer_id] = sp_unit
                   /\ g.dir_tracks[layer_id] = direction
        private == {g.private_layers[i] : i \in 1..Len(g.private_layers)}
    IN  IF known /\ same THEN [exc |-> "", self |-> g0]
        ELSE IF known /\ ~override THEN [exc |-> "ValueError", self |-> g0]
        ELSE [exc |-> "",
              self |-> [g0 EXCEPT
                  !.layers = IF known THEN @ ELSE SortedInsert(@, layer_id),
                  !.private_layers = IF is_private /\ layer_id \notin private
                                     THEN SortedInsert(@, layer_id) ELSE @,
                  !.sp_tracks = DictSet(@, layer_id, sp_unit),
                  !.w_tracks = DictSet(@, layer_id, w_unit),
                  !.dir_tracks = DictSet(@, layer_id, direction),
                  !.w_override = DictSet(@, layer_id, <<>>),
                  !.max_num_tr_tracks = DictSet(@, layer_id, max_num_tr),
                  !._flip_parity = IF layer_id \in DOMAIN @ THEN @
                                   ELSE DictSet(@, layer_id, <<1, 0>>)]]

\* ignore_layers_under: the layers up to layer_id (self.layers is sorted) join the set
ignore_layers_under(g, layer_id) ==
    [g EXCEPT !._ignore_layers =
        @ \cup {g.layers[i] : i \in {j \in 1..Len(g.layers) : g.layers[j] <= layer_id}}]

set_track_offset(g, layer_id, offset) ==
    [g EXCEPT !.offset_tracks = DictSet(@, layer_id, offset)]

\* copy of src/bag: every container is copied (list(...), .copy()), the one of
\* offset_tracks is a new empty dict; w_override[lay] is read for every layer
RoutingGrid_copy(g) ==
    IF \E i \in 1..Len(g.layers) : g.layers[i] \notin DOMAIN g.w_override
    THEN Raise("KeyError")
    ELSE Return([shared |-> {}, attrs |-> [g EXCEPT !.offset_tracks = <<>>]])

(***************************************************************************)
(* Life of a grid of src/bag and of its copy.  The grid variables hold the *)
(* grid g the calls start from (its tables empty at first), ret holds what *)
(* g.copy() returned: the attributes of the copy, and the names of those   *)
(* attributes whose container is the very container of g (a call on one    *)
(* grid that changes such a container changes it for both).  op, args and  *)
(* exc describe the last call; args.on names the grid it was made on.      *)
(* pc is "alone" until the grid was copied, "copied" afterwards.           *)
(***************************************************************************)
\* the copy as its holder reads it
CopyGrid ==
    [f \in DOMAIN ret.attrs |-> IF f \in ret.shared THEN Grid[f] ELSE ret.attrs[f]]

Target(on) ==
    IF on = "self" THEN Grid ELSE CopyGrid

Targets ==
    IF pc = "copied" THEN {"self", "copy"} ELSE {"self"}

\* a call on grid `on` has changed the containers of that grid in place, leaving g
Store(on, g) ==
    IF on = "self" THEN GridBecomes(g) /\ ret' = ret
    ELSE /\ ret' = [ret EXCEPT !.attrs = g]
         /\ GridBecomes([f \in DOMAIN Grid |-> IF f \in ret.shared THEN g[f] ELSE Grid[f]])

InitCopy ==
    /\ pc = "alone"
    /\ op = "RoutingGrid"
    /\ args = <<>>
    /\ ret = <<>>
    /\ exc = ""
    /\ NoGrid

CallAddNewLayer ==
    /\ \E on \in Targets, override \in BOOLEAN,
          lay \in {<<1, 2, "x">>, <<1, 3, "x">>, <<1, 2, "y">>, <<2, 2, "y">>} :
          LET r == add_new_layer_private(Target(on), lay[1], LayerSpace, lay[2], lay[3],
                                         DefaultMaxNumTr, override, TRUE)
          IN  /\ op' = "add_new_layer"
              /\ args' = [on |-> on, layer_id |-> lay[1], override |-> override]
              /\ exc' = r.exc
              /\ Store(on, r.self)
    /\ pc' = pc

CallIgnoreLayersUnder ==
    /\ \E on \in Targets, layer_id \in {1, 2} :
          /\ op' = "ignore_layers_under"
          /\ args' = [on |-> on, layer_id |-> layer_id]
          /\ Store(on, ignore_layers_under(Target(on), layer_id))
    /\ exc' = ""
    /\ pc' = pc

CallSetTrackOffset ==
    /\ \E on \in Targets :
          /\ op' = "set_track_offset"
          /\ args' = [on |-> on, layer_id |-> Layer1]
          /\ Store(on, set_track_offset(Target(on), Layer1, LayerWidth + 1))
    /\ exc' = ""
    /\ pc' = pc

CallCopy ==
    /\ LET r == RoutingGrid_copy(Grid)
       IN  /\ exc' = r.exc
           /\ IF r.exc = "" THEN ret' = r.val /\ pc' = "copied" ELSE UNCHANGED <<ret, pc>>
    /\ op' = "copy"
    /\ args' = [on |-> "self"]
    /\ UNCHANGED grid_vars

NextCopy ==
    \/ CallAddNewLayer
    \/ CallIgnoreLayersUnder
    \/ CallSetTrackOffset
    \/ CallCopy

SpecCopy == InitCopy /\ [][NextCopy]_vars

(***************************************************************************)
(* Properties of copy and of add_new_layer on a registered layer           *)
(* (SpecCopy).                                                             *)
(***************************************************************************)
\* the per-layer tables of a grid
Tables(g) ==
    <<g.layers, g.w_tracks, g.sp_tracks, g.dir_tracks, g.offset_tracks,
      g.max_num_tr_tracks, g.block_pitch>>

\* C21: g2 = g.copy() is independent of g: right after the call every per-layer table of
\* g2 (layers, width, spacing, direction, offset, max_num_tr, block pitch) equals that of
\* g, and a later call on one of the two grids leaves every table of the other as it was.
C21_CopyIndependent ==
    [][/\ op' = "copy" /\ exc' = "" => Tables(CopyGrid)' = Tables(Grid)'
       /\ op' # "copy" /\ pc = "copied" /\ args'.on = "self" => Tables(CopyGrid)' = Tables(CopyGrid)
       /\ op' # "copy" /\ pc = "copied" /\ args'.on = "copy" => Tables(Grid)' = Tables(Grid)]_vars

\* the record of a layer in grid g
LayerRecord(g, layer_id) ==
    <<g.w_tracks[layer_id], g.sp_tracks[layer_id], g.dir_tracks[layer_id],
      g.max_num_tr_tracks[layer_id]>>

\* an add_new_layer call (args', exc') on a registered layer took a grid from g to h:
\* without override it raised and h is g; the record of the layer differs only if
\* override was given
RegisteredAgain(g, h) ==
    args'.layer_id \in DOMAIN g.sp_tracks
    => /\ ~args'.override => exc' = "ValueError" /\ h = g
       /\ LayerRecord(h, args'.layer_id) # LayerRecord(g, args'.layer_id) => args'.override

\* C22: add_new_layer on a layer id that is registered, called without override, raises
\* and leaves every table of the grid and every auxiliary layer set as it was; the
\* record of the layer changes only when override is true.
C22_RejectedLeavesGrid ==
    [][op' = "add_new_layer"
       => IF args'.on = "self" THEN RegisteredAgain(Grid, Grid')
          ELSE RegisteredAgain(CopyGrid, CopyGrid')]_vars

(***************************************************************************)
(* The block pitch between two computations (SpecPitch).                   *)
(***************************************************************************)
\* C25: over the life of a grid (the constructor, then add_new_layer calls with new
\* layer ids or with override) every layer of grid.layers has a block pitch, and it is a
\* multiple of w + sp of every layer at or below it with its direction, with no further
\* call asked of the caller.
C25_BlockPitchKept ==
    pc \in {"built", "stale"}
    => \A L \in LayerIds :
          /\ L \in DOMAIN block_pitch
          /\ CommonMultiple(block_pitch[L], SameDirBelow(L))

(***************************************************************************)
(* The width searches of grid.py: get_max_track_width and                  *)
(* get_min_track_width drive a BinaryIterator(1, None) of bag.util.search, *)
(* an iterator without an upper bound: while no probe has been turned down *)
(* the next probe lies twice as far from the start; afterwards it halves   *)
(* the range between the last probe turned up and the last turned down.    *)
(* high = -1 stands for "no upper bound" and save = 0 for "nothing saved"  *)
(* (the probes start at 1).                                                *)
(***************************************************************************)
BinaryIterator(low) ==
    [offset |-> low, low |-> 0, high |-> 0 - 1, current |-> 0, save |-> 0]

has_next(it) ==
    it.high = 0 - 1 \/ it.low < it.high

get_next(it) ==
    it.current + it.offset

up(it) ==
    [it EXCEPT !.low = it.current + 1,
               !.current = IF it.high # 0 - 1 THEN PyDiv(it.current + 1 + it.high, 2)
                           ELSE IF it.current > 0 THEN 2 * it.current ELSE 1]

down(it) ==
    [it EXCEPT !.high = it.current, !.current = PyDiv(it.low + it.current, 2)]

save(it) ==
    [it EXCEPT !.save = get_next(it)]

get_last_save(it) ==
    it.save

\* tech_info.get_metal_em_specs: the DC current a wire of the given width carries; it
\* grows with the width up to the most the layer carries
get_metal_em_specs(tech, width) ==
    Min2(width, tech.idc_cap)

\* one pass of the loop of get_max_track_width
MaxTrackWidthStep(g, it, a) ==
    LET tr_w        == get_next(it)
        num_space   == IF a.half_end_space THEN a.num_tracks ELSE a.num_tracks + 1
        tr_sp       == get_num_space_tracks(g, a.tech, a.layer_id, tr_w)
        used_tracks == tr_w * a.num_tracks + tr_sp * num_space
    IN  IF used_tracks > a.tot_space THEN down(it) ELSE up(save(it))

\* one pass of the loop of get_min_track_width (bot_w and top_w left at -1, no AC
\* current asked for)
MinTrackWidthStep(g, it, a) ==
    LET ntr     == get_next(it)
        width   == get_track_width(g, a.layer_id, ntr)
        idc_max == get_metal_em_specs(a.tech, width)
    IN  IF a.idc > idc_max THEN up(it) ELSE down(save(it))

(***************************************************************************)
(* A width search in progress.  The grid has one layer, registered with    *)
(* max_num_tr = SearchMaxNumTr.  ret holds bin_iter; pc is "call" while    *)
(* the loop runs and "done" when it has ended and the function returns     *)
(* bin_iter.get_last_save().  The model follows a search up to the probe   *)
(* MaxProbe.                                                               *)
(***************************************************************************)
MaxProbe == 20
SearchMaxNumTr == 4

SearchTechs ==
    {[min_space |-> 0, wide_width |-> 6, wide_space |-> 3, idc_cap |-> 6],
     [min_space |-> 2, wide_width |-> 10, wide_space |-> 5, idc_cap |-> 14]}

InitSearch ==
    /\ pc = "call"
    /\ ret = BinaryIterator(1)
    /\ exc = ""
    /\ GridIs(add_new_layer(EmptyGrid, Layer1, LayerSpace, LayerWidth, "x", SearchMaxNumTr,
                            FALSE, FALSE).val)
    /\ \/ /\ op = "get_max_track_width"
          /\ args \in [layer_id : {Layer1}, num_tracks : 0..2, tot_space : {0, 3, 6, 12, 40},
                       half_end_space : BOOLEAN, tech : SearchTechs]
       \/ /\ op = "get_min_track_width"
          /\ args \in [layer_id : {Layer1}, idc : {0, 2, 6, 9, 14, 15}, tech : SearchTechs]

\* the loop has ended when has_next() is false
Looped(it) ==
    /\ ret' = it
    /\ pc' = IF has_next(it) THEN "call" ELSE "done"
    /\ UNCHANGED <<op, args, exc>>
    /\ UNCHANGED grid_vars

ProbeMaxTrackWidth ==
    /\ pc = "call"
    /\ op = "get_max_track_width"
    /\ get_next(ret) <= MaxProbe
    /\ Looped(MaxTrackWidthStep(Grid, ret, args))

ProbeMinTrackWidth ==
    /\ pc = "call"
    /\ op = "get_min_track_width"
    /\ get_next(ret) <= MaxProbe
    /\ Looped(MinTrackWidthStep(Grid, ret, args))

NextSearch ==
    \/ ProbeMaxTrackWidth
    \/ ProbeMinTrackWidth

SpecSearch == InitSearch /\ [][NextSearch]_vars

(***************************************************************************)
(* Properties of the width searches (SpecSearch).                          *)
(***************************************************************************)
\* the width the loop is about to probe
Probing ==
    pc = "call"

\* C23: a width search ends after finitely many probes, reports that no width
\* satisfies the predicate when none does, and never probes a width beyond the
\* max_num_tr the layer was configured with.
C23_SearchWithinMaxNumTr ==
    /\ Probing => get_next(ret) <= max_num_tr_tracks[args.layer_id]
    /\ pc = "done" => get_last_save(ret) <= max_num_tr_tracks[args.layer_id]

(***************************************************************************)
(* The loop of get_power_fill_tracks over the occupied wires, one wire a   *)
(* step.  Init is the call at "subtract used tracks from fill": the        *)
(* candidate fill tracks are in fill_track_set and sup_type is empty (the  *)
(* calls that raise before the loop do not get here).  ret holds           *)
(* fill_track_set, sup_type and the position i of the next wire in the     *)
(* ledger; pc is "loop" until the tracks are assigned.                     *)
(***************************************************************************)
\* fill_hidx_list as computed before the loop
FillHidxList ==
    FillCandidates(get_track_index_range(Grid, args.layer_id, 0, FillCupper, FillNumSpace,
                                         args.edge_margin, FALSE))

InitTags ==
    /\ pc = "loop"
    /\ op = "get_power_fill_tracks"
    /\ exc = ""
    /\ \E share_track \in BOOLEAN : GridIs(FillGrid(share_track, "x"))
    /\ args \in [layer_id : {Layer1}, tech : {[min_space |-> 0, wide_width |-> 6, wide_space |-> 3, min_length |-> 2]},
                 bnd_box : {[width_unit |-> 12, height_unit |-> 20]}, sup_width : {1, 2},
                 fill_margin : {0, 1}, edge_margin : {0}, sup_spacing : {0, 1},
                 track_set : Ledgers(PowerWires)]
    /\ args.sup_spacing >= get_num_space_tracks(Grid, args.tech, args.layer_id, args.sup_width)
    /\ ~get_track_index_range(Grid, args.layer_id, 0, FillCupper, FillNumSpace,
                              args.edge_margin, FALSE).none
    /\ Len(FillHidxList) > 0
    /\ ret = [fts |-> AddTracks(NewTrackSet(get_min_length(Grid, args.tech, args.layer_id,
                                                           args.sup_width)),
                                FillHidxList, 1, FillIntv),
              sup_type |-> <<>>, i |-> 1]

\* the body of the loop for the wire at position ret.i
SubtractWire ==
    /\ pc = "loop"
    /\ ret.i <= Len(args.track_set)
    /\ LET wire == args.track_set[ret.i]
           r    == FillSubtractWire(Grid, args.layer_id,
                                    [fts |-> ret.fts, sup_type |-> ret.sup_type], wire,
                                    WireBounds(Grid, args.layer_id, wire),
                                    Max2(args.fill_margin, wire.fmargin), args.sup_width,
                                    FillHidxList[Len(FillHidxList)])
       IN  /\ exc' = r.exc
           /\ IF r.exc = ""
              THEN /\ ret' = [fts |-> r.val.fts, sup_type |-> r.val.sup_type, i |-> ret.i + 1]
                   /\ pc' = "loop"
              ELSE /\ ret' = ret
                   /\ pc' = "done"
    /\ UNCHANGED <<op, args>>
    /\ UNCHANGED grid_vars

\* after the last wire: "count remaining fill tracks" to the end of the function
AssignFill ==
    /\ pc = "loop"
    /\ ret.i > Len(args.track_set)
    /\ Finish(PowerFillAssign(Return([fts |-> ret.fts, sup_type |-> ret.sup_type])))
    /\ UNCHANGED grid_vars

NextTags ==
    \/ SubtractWire
    \/ AssignFill

SpecTags == InitTags /\ [][NextTags]_vars

(***************************************************************************)
(* Properties of the supply tags (SpecTags).                               *)
(***************************************************************************)
\* the half-track range hidx0..hidx1 cleared for a wire
WireRange(wire) ==
    LET bnds    == WireBounds(Grid, args.layer_id, wire)
        fmargin == Max2(args.fill_margin, wire.fmargin)
        ov      == get_overlap_tracks(Grid, args.layer_id, bnds[1] - fmargin,
                                      bnds[2] + fmargin, TRUE)
    IN  [lo |-> ov.start + 1 - 2 * (args.sup_width - 1),
         hi |-> ov.stop + 1 + 2 * (args.sup_width - 1)]

\* the fill track of st nearest below lo, and nearest above hi (a set of at most two)
NearestOutside(st, lo, hi) ==
    LET below == {h \in DOMAIN st.fts.tracks : h < lo}
        above == {h \in DOMAIN st.fts.tracks : h > hi}
    IN  {h \in below : \A x \in below : x <= h} \cup {h \in above : \A x \in above : x >= h}

\* the loop body took the state from st0 to st1 for the wire: tags are kept; of the
\* tracks outside the cleared range only the nearest surviving fill track on either
\* side is tagged, with the type of the wire, and it is tagged unless it had a tag
TagStep(st0, st1, wire, rg) ==
    /\ \A h \in DOMAIN st0.sup_type :
          h \in DOMAIN st1.sup_type /\ st1.sup_type[h] = st0.sup_type[h]
    /\ IsSupply(wire.fill_type)
       => \A h \in NearestOutside(st1, rg.lo, rg.hi) : h \in DOMAIN st1.sup_type
    /\ \A h \in (DOMAIN st1.sup_type) \ (DOMAIN st0.sup_type) :
          /\ IsSupply(wire.fill_type)
          /\ st1.sup_type[h] = wire.fill_type
          /\ h \in rg.lo..rg.hi \/ h \in NearestOutside(st1, rg.lo, rg.hi)

\* C24: for each occupied wire tagged VDD or VSS the nearest surviving fill track below
\* the cleared half-track range and the nearest above it receive the type of the wire
\* if they carry no tag; no fill track farther away receives a tag from the wire, and a
\* tag once given is never overwritten.
C24_NearestNeighbourTagged ==
    [][pc = "loop" /\ pc' = "loop"
       => TagStep(ret, ret', args.track_set[ret.i], WireRange(args.track_set[ret.i]))]_vars

\* the first wire was a supply wire: a fill track took its type by propagation while a
\* fill track farther from the wire on the same side stays without a tag
C24_Witness ==
    /\ pc = "loop"
    /\ ret.i = 2
    /\ IsSupply(args.track_set[1].fill_type)
    /\ \E h \in NearestOutside(ret, WireRange(args.track_set[1]).lo, WireRange(args.track_set[1]).hi) :
          /\ ret.sup_type[h] = args.track_set[1].fill_type
          /\ \E f \in DOMAIN ret.fts.tracks :
                /\ f \notin DOMAIN ret.sup_type
                /\ (f < h /\ h < WireRange(args.track_set[1]).lo) \/ (f > h /\ h > WireRange(args.track_set[1]).hi)

(***************************************************************************)
(* Further properties of the packing functions (SpecPack).                 *)
(***************************************************************************)
\* C26: every call fill_symmetric_const_space(area, sp_max, n, n), with n_min = n_max =
\* n, that returns a non-empty list returns blocks of length exactly n.
C26_SingleLength ==
    (/\ Returned("fill_symmetric_const_space")
     /\ args.n_min = args.n_max
     /\ ret # <<>>)
    => \A i \in 1..Len(ret) : BlkLenAt(i) = args.n_max

\* C29: every interval [start, stop) returned by fill_symmetric_max or
\* fill_symmetric_const_space lies in the area: offset <= start < stop <= offset + area.
C29_BlocksInsideArea ==
    (PackReturned /\ op # "_fill_symmetric_helper")
    => \A i \in 1..Len(ret) :
          /\ args.offset <= ret[i][1]
          /\ ret[i][1] < ret[i][2]
          /\ ret[i][2] <= args.offset + args.area

(***************************************************************************)
(* Sequences of add_track and subtract on one TrackSet (SpecTrackSet).     *)
(* ret is the TrackSet, created empty with min_length; args holds the last *)
(* call with the receiver as it was when the call was made (args.self);    *)
(* pc counts the calls made.                                               *)
(***************************************************************************)
MaxOps == 4

MaxEnd == 4

TrackIntvs ==
    {iv \in (0..MaxEnd) \X (0..MaxEnd) : iv[1] < iv[2]}

TrackHidxs ==
    {1, 2}

InitTrackSet ==
    /\ pc = 0
    /\ op = "TrackSet"
    /\ exc = ""
    /\ NoGrid
    /\ args \in [min_length : {2, 3}]
    /\ ret = NewTrackSet(args.min_length)

CallTrackSetAddTrack ==
    /\ pc < MaxOps
    /\ \E hidx \in TrackHidxs, intv \in TrackIntvs :
          /\ args' = [self |-> ret, hidx |-> hidx, intv |-> intv]
          /\ ret' = TrackSet_add_track(ret, hidx, intv)
    /\ op' = "add_track"
    /\ pc' = pc + 1
    /\ UNCHANGED exc
    /\ UNCHANGED grid_vars

CallTrackSetSubtract ==
    /\ pc < MaxOps
    /\ \E hidx \in TrackHidxs, intv \in TrackIntvs :
          /\ args' = [self |-> ret, hidx |-> hidx, intv |-> intv]
          /\ ret' = TrackSet_subtract(ret, hidx, intv)
    /\ op' = "subtract"
    /\ pc' = pc + 1
    /\ UNCHANGED exc
    /\ UNCHANGED grid_vars

NextTrackSet ==
    \/ CallTrackSetAddTrack
    \/ CallTrackSetSubtract

SpecTrackSet == InitTrackSet /\ [][NextTrackSet]_vars

\* the intervals a track set stores at a half-track index, as a set
StoredAt(ts, hidx) ==
    IF hidx \in DOMAIN ts.tracks
    THEN {ts.tracks[hidx][j] : j \in 1..Len(ts.tracks[hidx])}
    ELSE {}

\* the parts of the intervals of S that lie outside intv
PiecesOutside(S, intv) ==
    {<<x[1], Min2(x[2], intv[1])>> : x \in {y \in S : y[1] < intv[1]}}
       \cup {<<Max2(x[1], intv[2]), x[2]>> : x \in {y \in S : y[2] > intv[2]}}

\* C27: after any sequence of add_track and subtract on a TrackSet created empty with
\* minimum length m, every stored interval has length >= m and every half-track index
\* present has a non-empty interval set; a subtract leaves exactly the fragments of
\* length >= m (a shorter fragment is removed entirely, other indices are untouched),
\* and an add_track of an interval shorter than m stores nothing.
C27_MinLengthKept ==
    /\ op \in {"TrackSet", "add_track", "subtract"}
    /\ \A h \in DOMAIN ret.tracks :
          /\ Len(ret.tracks[h]) > 0
          /\ \A x \in StoredAt(ret, h) : x[2] - x[1] >= ret.min_len
    /\ op = "subtract" =>
          /\ StoredAt(ret, args.hidx) =
                {p \in PiecesOutside(StoredAt(args.self, args.hidx), args.intv) :
                    p[2] - p[1] >= ret.min_len}
          /\ \A h \in TrackHidxs \ {args.hidx} : StoredAt(ret, h) = StoredAt(args.self, h)
    /\ (op = "add_track" /\ args.intv[2] - args.intv[1] < ret.min_len) => ret = args.self

\* a subtract has cut a stored interval into a fragment that is kept and a fragment
\* shorter than the minimum length, which is gone
C27_Witness ==
    /\ op = "subtract"
    /\ \E p \in PiecesOutside(StoredAt(args.self, args.hidx), args.intv) :
          /\ p[2] - p[1] < ret.min_len
          /\ p \notin StoredAt(ret, args.hidx)
    /\ StoredAt(ret, args.hidx) # {}

(***************************************************************************)
(* Ledger transform (SpecTransform): TrackSet.transform and                *)
(* UsedTracks.transform of fill.py on a grid with an x and a y layer.      *)
(* args.self is the ledger the call is made on, ret the ledger returned;   *)
(* the second call transforms the returned ledger with the same arguments. *)
(***************************************************************************)
\* IntervalSet.transform(scale, shift): every interval scaled and shifted, the values
\* kept; a negative scale swaps the ends and reverses the order
RECURSIVE IntervalSet_transform(_, _, _)
IntervalSet_transform(items, scale, shift) ==
    IF Len(items) = 0 THEN <<>>
    ELSE IF scale > 0
    THEN << <<<<items[1][1][1] + shift, items[1][1][2] + shift>>, items[1][2]>> >>
            \o IntervalSet_transform(Tail(items), scale, shift)
    ELSE IntervalSet_transform(Tail(items), scale, shift)
            \o << <<<<shift - items[1][1][2], shift - items[1][1][1]>>, items[1][2]>> >>

\* hidx_scale and intv_scale of TrackSet.transform
TransformScales(is_x, orient) ==
    IF orient = "R180" THEN [hidx |-> -1, intv |-> -1]
    ELSE IF orient = "MX" THEN (IF is_x THEN [hidx |-> -1, intv |-> 1] ELSE [hidx |-> 1, intv |-> -1])
    ELSE IF orient = "MY" THEN (IF is_x THEN [hidx |-> 1, intv |-> -1] ELSE [hidx |-> -1, intv |-> 1])
    ELSE [hidx |-> 1, intv |-> 1]

\* the dictionary new_tracks built by the loop of TrackSet.transform
NewTracks(tracks, hidx_scale, hidx_shift, intv_scale, intv_shift) ==
    [k \in {h * hidx_scale + hidx_shift : h \in DOMAIN tracks} |->
        IntervalSet_transform(tracks[(k - hidx_shift) * hidx_scale], intv_scale, intv_shift)]

\* TrackSet.transform(grid, layer_id, dx, dy, orient)
TrackSet_transform(ts, g, layer_id, dx, dy, orient) ==
    LET is_x  == g.dir_tracks[layer_id] = "x"
        tr    == coord_to_track(g, layer_id, IF is_x THEN dy ELSE dx)
        scale == TransformScales(is_x, orient)
    IN  IF tr.exc # "" THEN Raise(tr.exc)
        ELSE Return([tracks |-> NewTracks(ts.tracks, scale.hidx, tr.val + 1, scale.intv,
                                          IF is_x THEN dx ELSE dy),
                     min_len |-> ts.min_len])

\* UsedTracks.transform(grid, bot_layer, top_layer, loc, orient, unit_mode=True)
UsedTracks_transform(track_sets, g, bot_layer, top_layer, dx, dy, orient) ==
    LET lays == {l \in DOMAIN track_sets : bot_layer <= l /\ l <= top_layer}
        new  == [l \in lays |-> TrackSet_transform(track_sets[l], g, l, dx, dy, orient)]
    IN  IF \E l \in lays : new[l].exc # ""
        THEN Raise((new[CHOOSE l \in lays : new[l].exc # ""]).exc)
        ELSE Return([l \in lays |-> new[l].val])

\* a grid with layer Layer1 in the given direction and the layer above it in the other
TransformGrid(share_track, direction) ==
    add_new_layer(FillGrid(share_track, direction), Layer1 + 1, LayerSpace, LayerWidth,
                  IF direction = "x" THEN "y" ELSE "x", DefaultMaxNumTr, share_track, FALSE).val

\* the ledgers transformed: wires added with add_track on the two layers
SourceLedgers ==
    {DictSet(<<>>, Layer1,
             add_track(NewTrackSet(0), 3, <<0, 4>>, 1, <<0, "VSS">>)),
     DictSet(DictSet(<<>>, Layer1,
                     add_track(add_track(add_track(NewTrackSet(0), 3, <<0, 4>>, 1, <<0, "VSS">>),
                                         4, <<2, 6>>, 2, <<2, "VDD">>),
                               4, <<8, 12>>, 1, <<0, "">>)),
             Layer1 + 1,
             add_track(NewTrackSet(0), 1, <<0, 8>>, 1, <<0, "VDD">>))}

Shifts == {-4, 0, 2, 3}

InitTransform ==
    /\ pc = "call"
    /\ op = "transform"
    /\ exc = ""
    /\ ret = <<>>
    /\ \E share_track \in BOOLEAN, direction \in {"x", "y"} :
          GridIs(TransformGrid(share_track, direction))
    /\ args \in [self : SourceLedgers, bot_layer : {Layer1, Layer1 + 1},
                 top_layer : {Layer1, Layer1 + 1}, dx : Shifts, dy : Shifts,
                 orient : {"R0", "R180", "MX", "MY"}]

TransformOf(track_sets) ==
    UsedTracks_transform(track_sets, Grid, args.bot_layer, args.top_layer, args.dx, args.dy,
                         args.orient)

CallTransform ==
    /\ pc = "call"
    /\ pc' = "once"
    /\ exc' = TransformOf(args.self).exc
    /\ ret' = TransformOf(args.self).val
    /\ UNCHANGED <<op, args>>
    /\ UNCHANGED grid_vars

CallTransformAgain ==
    /\ pc = "once"
    /\ exc = ""
    /\ pc' = "twice"
    /\ exc' = TransformOf(ret).exc
    /\ ret' = TransformOf(ret).val
    /\ UNCHANGED <<op, args>>
    /\ UNCHANGED grid_vars

NextTransform ==
    \/ CallTransform
    \/ CallTransformAgain

SpecTransform == InitTransform /\ [][NextTransform]_vars

\* the wires of a track set: centre coordinate of the track, interval, stored value
WiresOf(ts, layer_id) ==
    {<<track_to_coord(Grid, layer_id, h - 1), ts.tracks[h][j][1], ts.tracks[h][j][2]>> :
        <<h, j>> \in {hj \in (DOMAIN ts.tracks) \X (1..3) : hj[2] <= Len(ts.tracks[hj[1]])}}

\* the image of a coordinate and of an interval under negation and shift
ImageCoord(c, neg, shift) ==
    IF neg THEN shift - c ELSE c + shift

ImageIntv(intv, neg, shift) ==
    IF neg THEN <<shift - intv[2], shift - intv[1]>> ELSE <<intv[1] + shift, intv[2] + shift>>

\* the orientation negates the x axis / the y axis
NegX(orient) == orient \in {"R180", "MY"}

NegY(orient) == orient \in {"R180", "MX"}

\* the image of a wire of a layer: on an x layer the track coordinate is a y coordinate
\* and the interval runs along x, on a y layer the other way round
ImageWire(w, layer_id) ==
    IF dir_tracks[layer_id] = "x"
    THEN <<ImageCoord(w[1], NegY(args.orient), args.dy),
           ImageIntv(w[2], NegX(args.orient), args.dx), w[3]>>
    ELSE <<ImageCoord(w[1], NegX(args.orient), args.dx),
           ImageIntv(w[2], NegY(args.orient), args.dy), w[3]>>

LayersInRange ==
    {l \in DOMAIN args.self : args.bot_layer <= l /\ l <= args.top_layer}

\* C28: a returning UsedTracks.transform holds exactly the layers of the ledger in
\* [bot_layer, top_layer], and on each of them exactly the images of the stored wires:
\* the track whose centre coordinate is the image of the wire's track centre under the
\* orientation and shift, the interval mapped likewise, the value kept; R0 with zero
\* shift returns the ledger's layers as they are, and so does R180 with zero shift
\* applied twice.  For layers of either track offset.
C28_TransformGeometry ==
    /\ (pc = "once" /\ exc = "") =>
          /\ DOMAIN ret = LayersInRange
          /\ \A l \in LayersInRange :
                WiresOf(ret[l], l) = {ImageWire(w, l) : w \in WiresOf(args.self[l], l)}
          /\ (args.orient = "R0" /\ args.dx = 0 /\ args.dy = 0) =>
                \A l \in LayersInRange : ret[l] = args.self[l]
    /\ (pc = "twice" /\ exc = "" /\ args.orient = "R180" /\ args.dx = 0 /\ args.dy = 0) =>
          /\ DOMAIN ret = LayersInRange
          /\ \A l \in LayersInRange : ret[l] = args.self[l]

\* the same on the grids whose layers have track offset pitch/2
C28_HalfPitchOffset ==
    (\A l \in DOMAIN offset_tracks : 2 * offset_tracks[l] = TrackPitch(Grid, l))
    => C28_TransformGeometry

(***************************************************************************)
(* Order of the occupied wires in get_power_fill_tracks (SpecFill).  The   *)
(* loop visits the half-track indices of the ledger in the order of its    *)
(* dictionary and the intervals of one index in increasing order.          *)
(***************************************************************************)
\* the orders in which the wires of ledger s can be visited
VisitOrders(s) ==
    {t \in {[i \in 1..Len(s) |-> s[p[i]]] : p \in Permutations(1..Len(s))} : WellFormed(t)}

\* C30: the result of get_power_fill_tracks (the VDD and the VSS list, or the exception
\* raised) is the same for every order in which the occupied wires of the ledger are
\* visited.
C30_OrderIndependent ==
    (pc = "done" /\ op = "get_power_fill_tracks")
    => \A t \in VisitOrders(args.track_set) :
          get_power_fill_tracks(Grid, args.tech, args.bnd_box, args.layer_id, t,
                                args.sup_width, args.fill_margin, args.edge_margin,
                                args.sup_spacing) = [exc |-> exc, val |-> ret]

====
